---- MODULE Spec2Model ----
(***************************************************************************)
(* State-machine model of the simplicial knowledge graph core:             *)
(*   - SimplexTree        (src/src/simplex_tree.py)                        *)
(*   - KnowledgeStore     (src/src/extraction.py)                          *)
(*   - WitnessComplexBuilder (src/src/pipeline.py)                         *)
(*   - KnowledgeRetriever.detect_gaps (src/src/retrieval.py)               *)
(* The SQLite tables are sets of rows; every method is an operator that    *)
(* maps the table (and the rowid counter) to the table after the call,     *)
(* and an action that applies it to the state.                             *)
(***************************************************************************)
EXTENDS Integers, Sequences, FiniteSets, TLC

VARIABLES
    simplex_vertex,        \* table simplex_vertex: set of rows
    last_node_id,          \* last rowid handed out for simplex_vertex
    user_knowledge_vertex, \* table user_knowledge_vertex: set of rows
    last_vertex_id,        \* last rowid handed out for user_knowledge_vertex
    vertex_cache,          \* KnowledgeStore._vertex_cache: canonical -> vertex_id
    first_insert,          \* history: <<user, sorted list>> -> its first insert_simplex
    returned,              \* history: the <<content, id>> of every get_or_create_vertex
    user_knowledge_edge,   \* table user_knowledge_edge: set of rows
    last_edge_id,          \* last rowid handed out for user_knowledge_edge
    first_edge,            \* history: <<tail, head, predicate>> -> its first create_edge
    temporal_vertices,     \* WitnessComplexBuilder.temporal_vertices
    window_start,          \* WitnessComplexBuilder.window_start
    window_end,            \* WitnessComplexBuilder.window_end
    location_vertices,     \* WitnessComplexBuilder.location_vertices
    location_timestamps,   \* WitnessComplexBuilder.location_timestamps
    location_simplex_ids,  \* WitnessComplexBuilder.location_simplex_ids
    entries_added,         \* history: number of add_entry calls with vertices
    closed_windows,        \* history: the windows of two or more vertices that ended
    location_given,        \* history: location -> the vertices and timestamps given
                           \* for it and the sets of two or more vertices it went through
    window_log,            \* history: the vertices given since the window was started, the
                           \* time of the last entry with vertices, the time of the last call
    committed_simplex_vertex, \* simplex_vertex as of the connection's last commit
    committed_last_node_id,   \* last_node_id as of the connection's last commit
    failed_created,        \* history: the node ids created by insert_simplex calls that raised
    arg_needle,            \* _is_subsequence: first argument
    arg_haystack,          \* _is_subsequence: second argument
    subsequence_call,      \* _is_subsequence: whether it was called, and what it returned
    data,                  \* run_pipeline: the search history loaded from the file
    run_pc,                \* run_pipeline: "idle" (not running) or "loop" (in the loop)
    loop_index,            \* run_pipeline: i of "for i, entry in enumerate(data)"
    processed_indices,     \* run_pipeline: processed_indices
    entries_with_vertices, \* run_pipeline: entries_with_vertices
    checkpoint_file,       \* the file checkpoint.json
    run_log                \* history of the runs: how many, how the last one ended, what
                           \* it loaded, handled and wrote

vars == <<simplex_vertex, last_node_id, user_knowledge_vertex, last_vertex_id,
          vertex_cache, first_insert, returned, user_knowledge_edge, last_edge_id,
          first_edge, temporal_vertices, window_start, window_end, location_vertices,
          location_timestamps, location_simplex_ids, entries_added, closed_windows,
          location_given, window_log, committed_simplex_vertex, committed_last_node_id,
          failed_created, arg_needle,
          arg_haystack, subsequence_call, data, run_pc, loop_index, processed_indices,
          entries_with_vertices, checkpoint_file, run_log>>

tree_vars == <<simplex_vertex, last_node_id, committed_simplex_vertex,
               committed_last_node_id>>

call_vars == <<arg_needle, arg_haystack, subsequence_call>>

pipeline_vars == <<data, run_pc, loop_index, processed_indices, entries_with_vertices,
                   checkpoint_file, run_log>>

\* what the actions of the tree, the store and the builder leave alone
other_vars == <<failed_created, call_vars, pipeline_vars>>

store_vars == <<user_knowledge_vertex, last_vertex_id, vertex_cache, returned>>

edge_vars == <<user_knowledge_edge, last_edge_id, first_edge>>

builder_vars == <<temporal_vertices, window_start, window_end, location_vertices,
                  location_timestamps, location_simplex_ids, entries_added,
                  closed_windows, location_given, window_log>>

----------------------------------------------------------------------------
(* Bounds of the model *)

\* vertex lists have at most MaxLen entries
MaxLen == 3

\* the tree creates at most MaxNodeId nodes in one run
MaxNodeId == 3

----------------------------------------------------------------------------
(* Values *)

\* SQL NULL / Python None for a node id (rowids start at 1)
NULL == 0

\* max_extra_depth: int | None. An int d is the one-element tuple <<d>> and
\* None the empty one, so that None is no int a caller can pass
None == <<>>

\* the int d given as a max_extra_depth
int_depth(d) == <<d>>

\* the default of max_extra_depth in the implementation's signature
DefaultMaxExtraDepth == 0

Users == {1, 2}

\* the vertex ids handed to the tree
VertexIds == {1, 2, 3}

RECURSIVE SeqsUpTo(_, _)
SeqsUpTo(S, n) ==
    IF n = 0 THEN {<<>>}
    ELSE LET shorter == SeqsUpTo(S, n - 1)
         IN shorter \cup {Append(s, x) : s \in {t \in shorter : Len(t) = n - 1}, x \in S}

AllLists == SeqsUpTo(VertexIds, MaxLen)

SimplexTypes == {"temporal", "location"}

\* a Python dict is its items in insertion order
MetaDicts == {<<<<"w", 5>>>>, <<<<"w", 30>>>>}

\* the (simplex_type, meta_data) pairs callers pass to insert_simplex
Labels == {<<"temporal", <<<<"w", 5>>>>>>, <<"location", <<<<"w", 30>>>>>>}

Range(s) == {s[i] : i \in DOMAIN s}

----------------------------------------------------------------------------
(* json.dumps / json.loads on the dicts stored in meta_data *)

\* the text is kept as a value of its own kind: it is no dict until it is loaded
json_dumps(obj) == [json |-> obj]

json_loads(text) == text.json

\* database.json_serialize
json_serialize(obj) == json_dumps(obj)

----------------------------------------------------------------------------
(* sorted(vertex_ids): ascending, repeats kept *)

RECURSIVE insort(_, _)
insort(x, s) ==
    IF s = <<>> THEN <<x>>
    ELSE IF x <= Head(s) THEN <<x>> \o s
    ELSE <<Head(s)>> \o insort(x, Tail(s))

RECURSIVE sorted(_)
sorted(s) == IF s = <<>> THEN <<>> ELSE insort(Head(s), sorted(Tail(s)))

\* reversed(list)
RECURSIVE reversed(_)
reversed(s) == IF s = <<>> THEN <<>> ELSE Append(reversed(Tail(s)), Head(s))

----------------------------------------------------------------------------
(* SimplexTree *)

\* the lists a caller may pass: the empty list, ascending lists and descending
\* (unsorted) lists, with or without repeated ids
VertexLists == {s \in AllLists : s = sorted(s) \/ s = reversed(sorted(s))}

\* cursor.fetchone(): a row of the result; the lookups below match at most one
fetchone(S) == CHOOSE r \in S : \A q \in S : r.node_id <= q.node_id

\* SELECT node_id FROM simplex_vertex WHERE user_id = ? AND parent_id IS NULL / = ?
\*   AND vertex_id = ?
\* the lookup without the user_id condition
child_lookup_any_user(rows, u, current_parent, vertex_id) ==
    {r \in rows : /\ r.parent_id = current_parent
                  /\ r.vertex_id = vertex_id}

child_lookup(rows, u, current_parent, vertex_id) ==
    {r \in rows : /\ r.user_id = u
                  /\ r.parent_id = current_parent
                  /\ r.vertex_id = vertex_id}

RECURSIVE search_walk(_, _, _, _, _)
search_walk(rows, u, svs, i, current_parent) ==
    IF i > Len(svs) THEN current_parent
    ELSE LET row == child_lookup(rows, u, current_parent, svs[i])
         IN IF row = {} THEN NULL
            ELSE search_walk(rows, u, svs, i + 1, fetchone(row).node_id)

search_simplex_unsorted(rows, u, vertex_ids) ==
    IF vertex_ids = <<>> THEN NULL
    ELSE search_walk(rows, u, vertex_ids, 1, NULL)

search_simplex(rows, u, vertex_ids) ==
    IF vertex_ids = <<>> THEN NULL
    ELSE search_walk(rows, u, sorted(vertex_ids), 1, NULL)

\* the loop of insert_simplex from position i on; st = [rows, last_id, parent]
RECURSIVE insert_walk(_, _, _, _, _, _)
insert_walk(st, u, svs, i, simplex_type, meta_json) ==
    IF i > Len(svs) THEN st
    ELSE LET row == child_lookup(st.rows, u, st.parent, svs[i])
         IN IF row # {}
            THEN insert_walk([st EXCEPT !.parent = fetchone(row).node_id],
                             u, svs, i + 1, simplex_type, meta_json)
            ELSE LET node_id == st.last_id + 1
                     new == [node_id   |-> node_id,
                             user_id   |-> u,
                             parent_id |-> st.parent,
                             vertex_id |-> svs[i],
                             depth     |-> (i - 1) + 1,
                             type      |-> simplex_type,
                             meta_data |-> meta_json]
                 IN insert_walk([rows    |-> st.rows \cup {new},
                                 last_id |-> node_id,
                                 parent  |-> node_id],
                                u, svs, i + 1, simplex_type, meta_json)

\* insert_simplex that writes the given type and meta_data on the terminal node
\* also when that node exists
insert_simplex_relabel(rows, last_id, u, vertex_ids, simplex_type, meta_data) ==
    IF vertex_ids = <<>>
    THEN [rows |-> rows, last_id |-> last_id, ret |-> NULL,
          error |-> "ValueError: Cannot insert empty simplex"]
    ELSE LET st == insert_walk([rows |-> rows, last_id |-> last_id, parent |-> NULL],
                               u, sorted(vertex_ids), 1, simplex_type,
                               json_dumps(meta_data))
         IN [rows    |-> {IF n.node_id = st.parent
                          THEN [n EXCEPT !.type = simplex_type,
                                         !.meta_data = json_dumps(meta_data)]
                          ELSE n : n \in st.rows},
             last_id |-> st.last_id, ret |-> st.parent, error |-> ""]

\* insert_simplex that walks the list in the order given
insert_simplex_unsorted(rows, last_id, u, vertex_ids, simplex_type, meta_data) ==
    IF vertex_ids = <<>>
    THEN [rows |-> rows, last_id |-> last_id, ret |-> NULL,
          error |-> "ValueError: Cannot insert empty simplex"]
    ELSE LET st == insert_walk([rows |-> rows, last_id |-> last_id, parent |-> NULL],
                               u, vertex_ids, 1, simplex_type, json_dumps(meta_data))
         IN [rows |-> st.rows, last_id |-> st.last_id, ret |-> st.parent, error |-> ""]

\* insert_simplex: [rows, last_id, ret, error]
insert_simplex(rows, last_id, u, vertex_ids, simplex_type, meta_data) ==
    IF vertex_ids = <<>>
    THEN [rows |-> rows, last_id |-> last_id, ret |-> NULL,
          error |-> "ValueError: Cannot insert empty simplex"]
    ELSE LET st == insert_walk([rows |-> rows, last_id |-> last_id, parent |-> NULL],
                               u, sorted(vertex_ids), 1, simplex_type,
                               json_dumps(meta_data))
         IN [rows |-> st.rows, last_id |-> st.last_id, ret |-> st.parent, error |-> ""]

\* insert_simplex when conn.execute raises at the k-th vertex of the sorted list:
\* the loop has run for the k - 1 vertices before it, and the commit is not reached
insert_simplex_raises(rows, last_id, u, vertex_ids, simplex_type, meta_data, k) ==
    LET st == insert_walk([rows |-> rows, last_id |-> last_id, parent |-> NULL],
                          u, SubSeq(sorted(vertex_ids), 1, k - 1), 1, simplex_type,
                          json_dumps(meta_data))
    IN [rows |-> st.rows, last_id |-> st.last_id, ret |-> NULL,
        error |-> "raised by conn.execute"]

\* _collect_path: SELECT vertex_id, parent_id FROM simplex_vertex WHERE node_id = ?
RECURSIVE collect_path_up(_, _)
collect_path_up(rows, current_id) ==
    IF current_id = NULL THEN <<>>
    ELSE LET row == fetchone({r \in rows : r.node_id = current_id})
         IN <<row.vertex_id>> \o collect_path_up(rows, row.parent_id)

collect_path(rows, node_id) == reversed(collect_path_up(rows, node_id))

\* a test for needle being the start of haystack
is_subsequence_prefix(needle, haystack) ==
    Len(needle) <= Len(haystack) /\ SubSeq(haystack, 1, Len(needle)) = needle

\* _is_subsequence: all(v in it for v in needle) over one iterator of haystack
RECURSIVE is_subsequence(_, _)
is_subsequence(needle, haystack) ==
    IF needle = <<>> THEN TRUE
    ELSE LET hits == {j \in DOMAIN haystack : haystack[j] = Head(needle)}
         IN IF hits = {} THEN FALSE
            ELSE LET j == CHOOSE k \in hits : \A h \in hits : k <= h
                 IN is_subsequence(Tail(needle), SubSeq(haystack, j + 1, Len(haystack)))

\* cursor.fetchall() of a SELECT without ORDER BY: the lists it can return for
\* the result set S. Each row comes once; the order is the query plan's (rowid
\* order, or the order of whichever index of the schema the plan reads), so
\* every order is possible
RECURSIVE fetchall(_)
fetchall(S) ==
    IF S = {} THEN {<<>>}
    ELSE UNION {{<<r>> \o rest : rest \in fetchall(S \ {r})} : r \in S}

\* one emitted coface: the path, or (path, type, meta) with include_metadata
emit(path, row, include_metadata) ==
    IF include_metadata
    THEN <<path, row.type, json_loads(row.meta_data)>>
    ELSE path

\* _collect_subtree that never descends
collect_subtree_no_descent(rows, root_id, root_verts, include_metadata, max_extra_depth, current_extra_depth) ==
    {<<>>}

\* _collect_subtree: children of root_id (by parent_id alone), depth first;
\* the lists it can return, one for each order the children can be fetched in
RECURSIVE collect_subtree(_, _, _, _, _, _)
RECURSIVE collect_children(_, _, _, _, _, _)
collect_subtree(rows, root_id, root_verts, include_metadata, max_extra_depth, current_extra_depth) ==
    IF max_extra_depth # None /\ current_extra_depth >= max_extra_depth[1]
    THEN {<<>>}
    ELSE UNION {collect_children(rows, children, root_verts, include_metadata,
                                 max_extra_depth, current_extra_depth) :
                children \in fetchall({r \in rows : r.parent_id = root_id})}

\* the loop over the fetched children
collect_children(rows, children, root_verts, include_metadata, max_extra_depth, current_extra_depth) ==
    IF children = <<>> THEN {<<>>}
    ELSE LET child == Head(children)
             child_verts == Append(root_verts, child.vertex_id)
         IN {<<emit(child_verts, child, include_metadata)>> \o below \o after :
                below \in collect_subtree(rows, child.node_id, child_verts, include_metadata,
                                          max_extra_depth, current_extra_depth + 1),
                after \in collect_children(rows, Tail(children), root_verts,
                                           include_metadata, max_extra_depth,
                                           current_extra_depth)}

\* SELECT ... WHERE user_id = ? AND vertex_id = ? AND depth >= ?
coface_candidates(rows, u, last_vertex, min_depth) ==
    {r \in rows : r.user_id = u /\ r.vertex_id = last_vertex /\ r.depth >= min_depth}

\* the loop over the fetched candidates: the lists it can build
RECURSIVE locate_loop(_, _, _, _, _)
locate_loop(rows, candidates, svs, include_metadata, max_extra_depth) ==
    IF candidates = <<>> THEN {<<>>}
    ELSE LET candidate == Head(candidates)
             path == collect_path(rows, candidate.node_id)
         IN IF is_subsequence(svs, path)
            THEN {<<emit(path, candidate, include_metadata)>> \o below \o rest :
                     below \in collect_subtree(rows, candidate.node_id, path,
                                               include_metadata, max_extra_depth, 0),
                     rest \in locate_loop(rows, Tail(candidates), svs, include_metadata,
                                          max_extra_depth)}
            ELSE locate_loop(rows, Tail(candidates), svs, include_metadata,
                             max_extra_depth)

locate_cofaces_no_test(rows, u, vertex_ids, include_metadata, max_extra_depth) ==
    IF vertex_ids = <<>> THEN {<<>>}
    ELSE LET svs == sorted(vertex_ids)
         IN UNION {locate_loop(rows, candidates, <<>>, include_metadata, max_extra_depth) :
                   candidates \in fetchall(coface_candidates(rows, u, svs[Len(svs)],
                                                             Len(svs)))}

\* locate_cofaces: the lists the call can return, one for each order its SELECTs
\* can fetch their rows in
locate_cofaces(rows, u, vertex_ids, include_metadata, max_extra_depth) ==
    IF vertex_ids = <<>> THEN {<<>>}
    ELSE LET svs == sorted(vertex_ids)
         IN UNION {locate_loop(rows, candidates, svs, include_metadata, max_extra_depth) :
                   candidates \in fetchall(coface_candidates(rows, u, svs[Len(svs)],
                                                             Len(svs)))}

\* locate_cofaces(vertex_ids, include_metadata) as the retriever calls it
locate_cofaces_default(rows, u, vertex_ids, include_metadata) ==
    locate_cofaces(rows, u, vertex_ids, include_metadata, int_depth(DefaultMaxExtraDepth))

\* WITH RECURSIVE descendants: the nodes reached from node_id by parent_id
RECURSIVE descendants_from(_, _)
descendants_from(rows, found) ==
    LET more == {r.node_id : r \in {q \in rows : q.parent_id \in found}} \ found
    IN IF more = {} THEN found ELSE descendants_from(rows, found \cup more)

descendants_children_only(rows, node_id) ==
    {r.node_id : r \in {q \in rows : q.parent_id = node_id}}

descendants(rows, node_id) ==
    LET children == {r.node_id : r \in {q \in rows : q.parent_id = node_id}}
    IN IF children = {} THEN {} ELSE descendants_from(rows, children)

\* SELECT EXISTS(SELECT 1 FROM simplex_vertex WHERE parent_id = ?)
has_children_never(rows, node_id) == FALSE

has_children(rows, node_id) == \E r \in rows : r.parent_id = node_id

\* remove_simplex that deletes the node of the simplex and nothing else
remove_simplex_node_only(rows, u, vertex_ids, remove_cofaces) ==
    LET node_id == search_simplex(rows, u, vertex_ids)
    IN IF node_id = NULL
       THEN [rows |-> rows, ret |-> FALSE, error |-> ""]
       ELSE [rows |-> {r \in rows : r.node_id # node_id}, ret |-> TRUE, error |-> ""]

\* remove_simplex that deletes every node whose path contains the simplex
remove_simplex_all_cofaces(rows, u, vertex_ids, remove_cofaces) ==
    LET node_id == search_simplex(rows, u, vertex_ids)
    IN IF node_id = NULL
       THEN [rows |-> rows, ret |-> FALSE, error |-> ""]
       ELSE [rows  |-> {r \in rows :
                          \/ r.user_id # u
                          \/ ~is_subsequence(sorted(vertex_ids), collect_path(rows, r.node_id))},
             ret   |-> TRUE,
             error |-> ""]

\* remove_simplex: [rows, ret, error]
remove_simplex(rows, u, vertex_ids, remove_cofaces) ==
    LET node_id == search_simplex(rows, u, vertex_ids)
    IN IF node_id = NULL
       THEN [rows |-> rows, ret |-> FALSE, error |-> ""]
       ELSE IF remove_cofaces
       THEN [rows  |-> {r \in rows : /\ r.node_id \notin descendants(rows, node_id)
                                     /\ r.node_id # node_id},
             ret   |-> TRUE,
             error |-> ""]
       ELSE IF has_children(rows, node_id)
       THEN [rows |-> rows, ret |-> FALSE, error |-> "ValueError: Simplex has cofaces"]
       ELSE [rows  |-> {r \in rows : r.node_id # node_id},
             ret   |-> TRUE,
             error |-> ""]

----------------------------------------------------------------------------
(* KnowledgeStore *)

\* timestamps of calls are 1..MaxTs
MaxTs == 2

\* a vertex is observed at most MaxFrequency times in one run
MaxFrequency == 3

\* the store creates at most MaxVertexId vertex rows in one run
MaxVertexId == 2

Timestamps == 1..MaxTs

\* the user the KnowledgeStore was opened for
StoreUser == 1

\* entity strings, as sequences of characters
Contents ==
    { <<"P", "a">>, <<" ", "p", "a">>, <<"P", "A", " ">>, <<"R", "o">>, <<"r", "o">> }

\* entity strings with the sharp s, whose case-folded form is "ss"
FoldContents ==
    { <<"ß">>, <<"S", "S">>, <<" ", "s", "s">>, <<"P", "a">>, <<"p", "A", " ">> }

\* str.lower() on one character
lower_char(c) ==
    CASE c = "P" -> "p"
      [] c = "A" -> "a"
      [] c = "R" -> "r"
      [] c = "S" -> "s"
      [] OTHER   -> c

\* str.lower()
lower(str) == [i \in DOMAIN str |-> lower_char(str[i])]

is_space(c) == c = " "

RECURSIVE lstrip(_)
lstrip(str) ==
    IF str # <<>> /\ is_space(Head(str)) THEN lstrip(Tail(str)) ELSE str

\* str.strip(): leading and trailing whitespace removed
strip(str) == reversed(lstrip(reversed(lstrip(str))))

\* canonical = content.lower().strip()
canonical_key(content) == strip(lower(content))

\* extractor.embed(text): a vector that depends on the text
embed(text) == <<"embedding-of", text>>

\* dict[key], dict.get(key, default) and dict[key] = value on a dict kept as its items
dict_has(d, key) == \E i \in DOMAIN d : d[i][1] = key

dict_get(d, key, default) ==
    IF dict_has(d, key)
    THEN d[CHOOSE i \in DOMAIN d : d[i][1] = key][2]
    ELSE default

dict_set(d, key, value) ==
    IF dict_has(d, key)
    THEN [i \in DOMAIN d |-> IF d[i][1] = key THEN <<key, value>> ELSE d[i]]
    ELSE Append(d, <<key, value>>)

\* function (Python dict) update: f[key] = value
map_set(f, key, value) ==
    [k \in DOMAIN f \cup {key} |-> IF k = key THEN value ELSE f[k]]

\* the loop of _load_vertex_cache over the fetched rows: a later row replaces an
\* earlier one under the same key
RECURSIVE load_rows(_, _)
load_rows(cache, rows) ==
    IF rows = <<>> THEN cache
    ELSE load_rows(map_set(cache, lower(Head(rows).content), Head(rows).vertex_id),
                   Tail(rows))

\* _load_vertex_cache: the caches a store opened on the table can start with, one
\* for each order its SELECT (which has no ORDER BY) can fetch the rows in
load_vertex_cache(table, u) ==
    {load_rows(<<>>, rows) : rows \in fetchall({r \in table : r.user_id = u})}

\* _update_vertex_metadata that also rewrites first_seen
update_vertex_metadata_reset(table, vertex_id, timestamp) ==
    LET row == CHOOSE r \in table : r.vertex_id = vertex_id
        loaded == json_loads(row.meta_data)
        bumped == dict_set(loaded, "frequency", dict_get(loaded, "frequency", 0) + 1)
        meta_data == dict_set(dict_set(bumped, "last_seen", timestamp),
                              "first_seen", timestamp)
    IN {IF r.vertex_id = vertex_id
        THEN [r EXCEPT !.meta_data = json_serialize(meta_data)]
        ELSE r : r \in table}

\* _update_vertex_metadata: UPDATE ... SET meta_data = ? WHERE vertex_id = ?
update_vertex_metadata(table, vertex_id, timestamp) ==
    LET row == CHOOSE r \in table : r.vertex_id = vertex_id
        loaded == json_loads(row.meta_data)
        bumped == dict_set(loaded, "frequency", dict_get(loaded, "frequency", 0) + 1)
        meta_data == dict_set(bumped, "last_seen", timestamp)
    IN {IF r.vertex_id = vertex_id
        THEN [r EXCEPT !.meta_data = json_serialize(meta_data)]
        ELSE r : r \in table}

\* the vertex row get_or_create_vertex inserts on a miss
new_vertex(vertex_id, u, content, timestamp) ==
    [vertex_id |-> vertex_id,
     user_id   |-> u,
     embedding |-> json_serialize(embed(content)),
     content   |-> content,
     meta_data |-> json_serialize(<< <<"first_seen", timestamp>>,
                                     <<"last_seen", timestamp>>,
                                     <<"frequency", 1>> >>)]

\* get_or_create_vertex that caches the key before it asks for the embedding
get_or_create_vertex_cache_first(table, last_id, cache, u, content, timestamp, embed_ok) ==
    LET canonical == canonical_key(content)
    IN IF canonical \in DOMAIN cache
       THEN [table   |-> update_vertex_metadata(table, cache[canonical], timestamp),
             last_id |-> last_id,
             cache   |-> cache,
             ret     |-> cache[canonical],
             error   |-> ""]
       ELSE IF ~embed_ok
       THEN [table |-> table, last_id |-> last_id,
             cache |-> map_set(cache, canonical, last_id + 1), ret |-> NULL,
             error |-> "embed failed"]
       ELSE [table   |-> table \cup {new_vertex(last_id + 1, u, content, timestamp)},
             last_id |-> last_id + 1,
             cache   |-> map_set(cache, canonical, last_id + 1),
             ret     |-> last_id + 1,
             error   |-> ""]

\* get_or_create_vertex: [table, last_id, cache, ret, error];
\* embed_ok is whether extractor.embed answers when it is called
get_or_create_vertex(table, last_id, cache, u, content, timestamp, embed_ok) ==
    LET canonical == canonical_key(content)
    IN IF canonical \in DOMAIN cache
       THEN [table   |-> update_vertex_metadata(table, cache[canonical], timestamp),
             last_id |-> last_id,
             cache   |-> cache,
             ret     |-> cache[canonical],
             error   |-> ""]
       ELSE IF ~embed_ok
       THEN [table |-> table, last_id |-> last_id, cache |-> cache, ret |-> NULL,
             error |-> "embed failed"]
       ELSE LET vertex_id == last_id + 1
                meta_data == << <<"first_seen", timestamp>>,
                                <<"last_seen", timestamp>>,
                                <<"frequency", 1>> >>
                new == [vertex_id |-> vertex_id,
                        user_id   |-> u,
                        embedding |-> json_serialize(embed(content)),
                        content   |-> content,
                        meta_data |-> json_serialize(meta_data)]
            IN [table   |-> table \cup {new},
                last_id |-> vertex_id,
                cache   |-> map_set(cache, canonical, vertex_id),
                ret     |-> vertex_id,
                error   |-> ""]

\* meta_data["frequency"] of a vertex row
frequency(row) == dict_get(json_loads(row.meta_data), "frequency", 0)

\* the edge ids handed out in one run are at most MaxEdgeId
MaxEdgeId == 3

\* predicate labels of relationships
Predicates == {"located_in", "is_a"}

\* SELECT edge_id FROM user_knowledge_edge WHERE user_id = ? AND tail_vertex = ?
\*   AND head_vertex = ? AND content = ?
existing_edge(table, u, tail_vertex, head_vertex, relationship) ==
    {e \in table : /\ e.user_id = u
                   /\ e.tail_vertex = tail_vertex
                   /\ e.head_vertex = head_vertex
                   /\ e.content = relationship}

\* create_edge that inserts without looking for the edge
create_edge_always(table, last_id, u, tail_vertex, head_vertex, relationship, timestamp) ==
    [table   |-> table \cup {[edge_id     |-> last_id + 1,
                              user_id     |-> u,
                              tail_vertex |-> tail_vertex,
                              head_vertex |-> head_vertex,
                              content     |-> relationship,
                              meta_data   |-> json_serialize(<< <<"created_at", timestamp>> >>)]},
     last_id |-> last_id + 1,
     ret     |-> last_id + 1]

\* create_edge: [table, last_id, ret]
create_edge(table, last_id, u, tail_vertex, head_vertex, relationship, timestamp) ==
    LET existing == existing_edge(table, u, tail_vertex, head_vertex, relationship)
    IN IF existing # {}
       THEN [table   |-> table,
             last_id |-> last_id,
             ret     |-> (CHOOSE e \in existing : \A q \in existing : e.edge_id <= q.edge_id).edge_id]
       ELSE LET edge_id == last_id + 1
                meta_data == << <<"created_at", timestamp>> >>
                new == [edge_id     |-> edge_id,
                        user_id     |-> u,
                        tail_vertex |-> tail_vertex,
                        head_vertex |-> head_vertex,
                        content     |-> relationship,
                        meta_data   |-> json_serialize(meta_data)]
            IN [table |-> table \cup {new}, last_id |-> edge_id, ret |-> edge_id]

----------------------------------------------------------------------------
(* WitnessComplexBuilder: st is the builder's fields with the tree's table   *)
(* (rows) and rowid counter (last_id)                                       *)

\* the window W of the builder, in minutes
WindowMinutes == 1

\* entry timestamps are the minutes 1..MaxTime
MaxTime == 3

\* at most MaxEntries entries with vertices are fed to one builder
MaxEntries == 2

EntryTimes == 1..MaxTime

\* location=None
NoLocation == "None"

\* the labels extract_location gives
Locations == {"home", "work", "other"}

\* the vertex_ids of an entry: none, one vertex, two vertices out of order
EntryLists == {<<>>, <<1>>, <<3, 2>>}

\* datetime.isoformat(): the text of a datetime
isoformat(t) == <<"isoformat", t>>

\* timedelta(minutes=m), in minutes
timedelta(m) == m

\* list(a_set): the elements, each once, small integers in ascending order
RECURSIVE list_of(_)
list_of(S) ==
    IF S = {} THEN <<>>
    ELSE LET x == CHOOSE a \in S : \A b \in S : a <= b
         IN <<x>> \o list_of(S \ {x})

min(s) == CHOOSE x \in Range(s) : \A y \in Range(s) : x <= y

max(s) == CHOOSE x \in Range(s) : \A y \in Range(s) : x >= y

\* WitnessComplexBuilder.__init__ on a tree whose connection holds the table rows
\* and the rowid counter last_id; committed is [rows, last_id] as the connection's
\* last commit made them durable
new_builder(rows, last_id, committed) ==
    [rows                 |-> rows,
     last_id              |-> last_id,
     committed            |-> committed,
     temporal_vertices    |-> {},
     window_start         |-> NULL,
     window_end           |-> NULL,
     location_vertices    |-> [l \in Locations |-> {}],
     location_timestamps  |-> [l \in Locations |-> <<>>],
     location_simplex_ids |-> <<>>]

\* the meta_data of a temporal simplex
temporal_meta(start, end) ==
    << <<"window_start", isoformat(start)>>,
       <<"window_end", isoformat(end)>>,
       <<"window_minutes", WindowMinutes>> >>

\* the meta_data of a location simplex
location_meta(location, timestamps) ==
    << <<"location", location>>,
       <<"first_seen", isoformat(min(timestamps))>>,
       <<"last_seen", isoformat(max(timestamps))>>,
       <<"entry_count", Len(timestamps)>> >>

\* "len(self.temporal_vertices) >= 2 and self.window_start and self.window_end"
window_to_flush(st) ==
    Cardinality(st.temporal_vertices) >= 2 /\ st.window_start # NULL /\ st.window_end # NULL

\* _flush_temporal_window
flush_temporal_window(st, u) ==
    IF window_to_flush(st)
    THEN LET r == insert_simplex(st.rows, st.last_id, u, list_of(st.temporal_vertices),
                                 "temporal", temporal_meta(st.window_start, st.window_end))
         IN [st EXCEPT !.rows = r.rows, !.last_id = r.last_id,
                       !.committed = IF r.error = ""
                                     THEN [rows |-> r.rows, last_id |-> r.last_id] ELSE @]
    ELSE st

\* _update_location_simplex that inserts nothing
update_location_simplex_skip(st, u, location) == st

\* _update_location_simplex
update_location_simplex(st, u, location) ==
    LET vertices == st.location_vertices[location]
    IN IF Cardinality(vertices) < 2 THEN st
       ELSE LET timestamps == st.location_timestamps[location]
                r == insert_simplex(st.rows, st.last_id, u, list_of(vertices),
                                    "location", location_meta(location, timestamps))
            IN [st EXCEPT !.rows = r.rows,
                          !.last_id = r.last_id,
                          !.committed = IF r.error = ""
                                        THEN [rows |-> r.rows, last_id |-> r.last_id]
                                        ELSE @,
                          !.location_simplex_ids = map_set(@, location, r.ret)]

\* the temporal part of add_entry, were an entry within the window to replace
\* the vertices of the window
temporal_transition_replace(st, u, vertex_ids, timestamp) ==
    IF st.window_start = NULL \/ st.window_end = NULL
    THEN [st EXCEPT !.temporal_vertices = Range(vertex_ids),
                    !.window_start = timestamp,
                    !.window_end = timestamp]
    ELSE IF timestamp - st.window_end <= timedelta(WindowMinutes)
    THEN [st EXCEPT !.temporal_vertices = Range(vertex_ids),
                    !.window_end = timestamp]
    ELSE [flush_temporal_window(st, u) EXCEPT !.temporal_vertices = Range(vertex_ids),
                                              !.window_start = timestamp,
                                              !.window_end = timestamp]

\* the temporal part of add_entry
temporal_transition(st, u, vertex_ids, timestamp) ==
    IF st.window_start = NULL \/ st.window_end = NULL
    THEN [st EXCEPT !.temporal_vertices = Range(vertex_ids),
                    !.window_start = timestamp,
                    !.window_end = timestamp]
    ELSE IF timestamp - st.window_end <= timedelta(WindowMinutes)
    THEN [st EXCEPT !.temporal_vertices = @ \cup Range(vertex_ids),
                    !.window_end = timestamp]
    ELSE [flush_temporal_window(st, u) EXCEPT !.temporal_vertices = Range(vertex_ids),
                                              !.window_start = timestamp,
                                              !.window_end = timestamp]

\* the location part of add_entry; "if location:" holds for a non-empty string
location_transition(st, u, vertex_ids, timestamp, location) ==
    IF location # NoLocation /\ location # ""
    THEN update_location_simplex(
             [st EXCEPT !.location_vertices[location] = @ \cup Range(vertex_ids),
                        !.location_timestamps[location] = Append(@, timestamp)],
             u, location)
    ELSE st

\* add_entry
add_entry(st, u, vertex_ids, timestamp, location) ==
    IF vertex_ids = <<>> THEN st
    ELSE location_transition(temporal_transition(st, u, vertex_ids, timestamp),
                             u, vertex_ids, timestamp, location)

\* finalize that flushes nothing
finalize_nothing(st, u) == st

\* finalize
finalize(st, u) == flush_temporal_window(st, u)

----------------------------------------------------------------------------
(* KnowledgeRetriever.detect_gaps *)

RECURSIVE pow2(_)
pow2(n) == IF n = 0 THEN 1 ELSE 2 * pow2(n - 1)

\* mask & (1 << i), for the 0-based position i
bit_set(mask, i) == (mask \div pow2(i)) % 2 = 1

\* [vertex_ids[i] for i in range(n) if mask & (1 << i)]
RECURSIVE face_of_mask(_, _, _)
face_of_mask(svs, mask, i) ==
    IF i > Len(svs) THEN <<>>
    ELSE (IF bit_set(mask, i - 1) THEN <<svs[i]>> ELSE <<>>) \o face_of_mask(svs, mask, i + 1)

\* enumerate_theoretical_faces: the faces for mask = 1 .. 2^n - 1, in that order
enumerate_theoretical_faces(vertex_ids) ==
    LET svs == sorted(vertex_ids)
    IN [mask \in 1..(pow2(Len(svs)) - 1) |-> face_of_mask(svs, mask, 1)]

\* the loop over the faces of one coface; acc = [seen_faces, gaps]
RECURSIVE detect_faces(_, _, _, _)
detect_faces(rows, u, faces, acc) ==
    IF faces = <<>> THEN acc
    ELSE LET face == Head(faces)
         IN IF face \in acc.seen_faces
            THEN detect_faces(rows, u, Tail(faces), acc)
            ELSE LET seen == acc.seen_faces \cup {face}
                     gap == Len(face) > 1 /\ search_simplex(rows, u, face) = NULL
                 IN detect_faces(rows, u, Tail(faces),
                                 [seen_faces |-> seen,
                                  gaps |-> IF gap THEN Append(acc.gaps, face) ELSE acc.gaps])

\* the loop over the cofaces
RECURSIVE detect_cofaces(_, _, _, _)
detect_cofaces(rows, u, cofaces, acc) ==
    IF cofaces = <<>> THEN acc
    ELSE IF Len(Head(cofaces)) < 2
    THEN detect_cofaces(rows, u, Tail(cofaces), acc)
    ELSE detect_cofaces(rows, u, Tail(cofaces),
                        detect_faces(rows, u, enumerate_theoretical_faces(Head(cofaces)), acc))

\* detect_gaps that reports every face of two or more vertices of the first coface
\* without looking it up
detect_gaps_no_search(rows, u, cofaces) ==
    IF cofaces = <<>> THEN <<>>
    ELSE SelectSeq(enumerate_theoretical_faces(Head(cofaces)), LAMBDA face : Len(face) > 1)

\* detect_gaps: faces of more than one vertex that search_simplex does not find
detect_gaps(rows, u, cofaces) ==
    detect_cofaces(rows, u, cofaces, [seen_faces |-> {}, gaps |-> <<>>]).gaps

----------------------------------------------------------------------------
(* The state machine: one database, the SimplexTree and the KnowledgeStore   *)
(* opened on it                                                             *)

TreeInit ==
    /\ simplex_vertex = {}
    /\ last_node_id = 0
    /\ committed_simplex_vertex = {}
    /\ committed_last_node_id = 0
    /\ failed_created = {}
    /\ first_insert = <<>>

\* no call of _is_subsequence is under way
CallInit ==
    /\ arg_needle = <<>>
    /\ arg_haystack = <<>>
    /\ subsequence_call = [called |-> FALSE, ret |-> FALSE]

StoreInit ==
    /\ user_knowledge_vertex = {}
    /\ last_vertex_id = 0
    /\ vertex_cache \in load_vertex_cache({}, StoreUser)
    /\ returned = {}

EdgeInit ==
    /\ user_knowledge_edge = {}
    /\ last_edge_id = 0
    /\ first_edge = <<>>

\* the fields of the builder and the tree it writes to, as one record
builder_state ==
    [rows                 |-> simplex_vertex,
     last_id              |-> last_node_id,
     committed            |-> [rows    |-> committed_simplex_vertex,
                               last_id |-> committed_last_node_id],
     temporal_vertices    |-> temporal_vertices,
     window_start         |-> window_start,
     window_end           |-> window_end,
     location_vertices    |-> location_vertices,
     location_timestamps  |-> location_timestamps,
     location_simplex_ids |-> location_simplex_ids]

BuilderInit ==
    /\ \E b \in {new_builder({}, 0, [rows |-> {}, last_id |-> 0])} :
          /\ temporal_vertices = b.temporal_vertices
          /\ window_start = b.window_start
          /\ window_end = b.window_end
          /\ location_vertices = b.location_vertices
          /\ location_timestamps = b.location_timestamps
          /\ location_simplex_ids = b.location_simplex_ids
    /\ entries_added = 0
    /\ closed_windows = {}
    /\ location_given = [l \in Locations |-> [vertices |-> {}, timestamps |-> <<>>, sets |-> {}]]
    /\ window_log = [given |-> {}, last |-> NULL, time |-> 0]

\* no run of the pipeline has started and no checkpoint file exists
RunInit ==
    /\ run_pc = "idle"
    /\ loop_index = 0
    /\ processed_indices = {}
    /\ entries_with_vertices = <<>>
    /\ checkpoint_file = [exists |-> FALSE]
    /\ run_log = [runs |-> 0, exit |-> "none", resume |-> FALSE, loaded |-> {},
                  handled |-> {}, written |-> {}, failed |-> {}, unretried |-> {},
                  retried |-> {}, previous |-> "none"]

PipelineInit == RunInit /\ data = <<>>

Init == TreeInit /\ StoreInit /\ EdgeInit /\ BuilderInit /\ CallInit /\ PipelineInit

\* a database that holds the vertices of two entities, stored by two
\* get_or_create_vertex calls, and no edge
InitEdge ==
    /\ TreeInit /\ EdgeInit /\ BuilderInit /\ CallInit /\ PipelineInit
    /\ \E cache \in load_vertex_cache({}, StoreUser) :
       \E a \in {get_or_create_vertex({}, 0, cache, StoreUser, <<"P", "a">>, 1, TRUE)} :
          \E b \in {get_or_create_vertex(a.table, a.last_id, a.cache, StoreUser,
                                         <<"R", "o">>, 1, TRUE)} :
             /\ user_knowledge_vertex = b.table
             /\ last_vertex_id = b.last_id
             /\ vertex_cache = b.cache
             /\ returned = {<<<<"P", "a">>, a.ret>>, <<<<"R", "o">>, b.ret>>}

\* tree.insert_simplex(vs, t, m) on the SimplexTree of user u; a call that returns
\* has committed
InsertCall(u, vs, t, m) ==
    \E r \in {insert_simplex(simplex_vertex, last_node_id, u, vs, t, m)} :
       /\ r.last_id <= MaxNodeId
       /\ simplex_vertex' = r.rows
       /\ last_node_id' = r.last_id
       /\ committed_simplex_vertex' = IF r.error = "" THEN r.rows ELSE committed_simplex_vertex
       /\ committed_last_node_id' = IF r.error = "" THEN r.last_id ELSE committed_last_node_id

InsertSimplex(u, vs, t, m) ==
    /\ InsertCall(u, vs, t, m)
    /\ UNCHANGED <<first_insert, store_vars, edge_vars, builder_vars, other_vars>>

\* the same call, with the first insert of each sorted list recorded: the id it
\* returned and the type and meta_data it was given
InsertSimplexRecorded(u, vs, t, m) ==
    /\ InsertCall(u, vs, t, m)
    /\ first_insert' =
          IF vs = <<>> \/ <<u, sorted(vs)>> \in DOMAIN first_insert
          THEN first_insert
          ELSE map_set(first_insert, <<u, sorted(vs)>>,
                       [ret  |-> insert_simplex(simplex_vertex, last_node_id, u, vs, t, m).ret,
                        type |-> t,
                        meta |-> m])
    /\ UNCHANGED <<store_vars, edge_vars, builder_vars, other_vars>>

\* tree.remove_simplex(vs, remove_cofaces=c) on the SimplexTree of user u
RemoveSimplex(u, vs, c) ==
    /\ \E r \in {remove_simplex(simplex_vertex, u, vs, c)} :
          /\ simplex_vertex' = r.rows
          /\ committed_simplex_vertex' = IF r.ret THEN r.rows ELSE committed_simplex_vertex
          /\ committed_last_node_id' = IF r.ret THEN last_node_id ELSE committed_last_node_id
    /\ UNCHANGED <<last_node_id, first_insert, store_vars, edge_vars, builder_vars,
                   other_vars>>

\* store.get_or_create_vertex(content, ts). The store and the tree share one
\* connection: the conn.commit() of a call that returns makes durable whatever the
\* connection holds, rows of simplex_vertex included
GetOrCreateVertex(content, ts, embed_ok) ==
    \E r \in {get_or_create_vertex(user_knowledge_vertex, last_vertex_id, vertex_cache,
                                   StoreUser, content, ts, embed_ok)} :
       /\ r.last_id <= MaxVertexId
       /\ \A row \in r.table : frequency(row) <= MaxFrequency
       /\ user_knowledge_vertex' = r.table
       /\ last_vertex_id' = r.last_id
       /\ vertex_cache' = r.cache
       /\ returned' = IF r.error = "" THEN returned \cup {<<content, r.ret>>} ELSE returned
       /\ committed_simplex_vertex' =
             IF r.error = "" THEN simplex_vertex ELSE committed_simplex_vertex
       /\ committed_last_node_id' =
             IF r.error = "" THEN last_node_id ELSE committed_last_node_id
       /\ UNCHANGED <<simplex_vertex, last_node_id, first_insert, edge_vars, builder_vars,
                      other_vars>>

\* a new KnowledgeStore is opened on the database: its cache is loaded from the
\* table, in one of the orders the rows can be fetched in
OpenStore ==
    /\ vertex_cache' \in load_vertex_cache(user_knowledge_vertex, StoreUser)
    /\ UNCHANGED <<user_knowledge_vertex, last_vertex_id, returned, tree_vars,
                   first_insert, edge_vars, builder_vars, other_vars>>

\* store.create_edge(tail, head, relationship, ts) between two stored vertices;
\* it commits (on the connection it shares with the tree) when it inserts an edge
CreateEdge(tail_vertex, head_vertex, relationship, ts) ==
    \E r \in {create_edge(user_knowledge_edge, last_edge_id, StoreUser, tail_vertex,
                          head_vertex, relationship, ts)} :
       /\ {tail_vertex, head_vertex} \subseteq {v.vertex_id : v \in user_knowledge_vertex}
       /\ r.last_id <= MaxEdgeId
       /\ user_knowledge_edge' = r.table
       /\ last_edge_id' = r.last_id
       /\ first_edge' =
             IF <<tail_vertex, head_vertex, relationship>> \in DOMAIN first_edge
             THEN first_edge
             ELSE map_set(first_edge, <<tail_vertex, head_vertex, relationship>>,
                          [ret |-> r.ret, ts |-> ts])
       /\ committed_simplex_vertex' =
             IF r.table # user_knowledge_edge THEN simplex_vertex
             ELSE committed_simplex_vertex
       /\ committed_last_node_id' =
             IF r.table # user_knowledge_edge THEN last_node_id
             ELSE committed_last_node_id
       /\ UNCHANGED <<simplex_vertex, last_node_id, first_insert, store_vars, builder_vars,
                      other_vars>>

\* the builder's fields and the tree take the values of the record r
BuilderBecomes(r) ==
    /\ simplex_vertex' = r.rows
    /\ last_node_id' = r.last_id
    /\ committed_simplex_vertex' = r.committed.rows
    /\ committed_last_node_id' = r.committed.last_id
    /\ temporal_vertices' = r.temporal_vertices
    /\ window_start' = r.window_start
    /\ window_end' = r.window_end
    /\ location_vertices' = r.location_vertices
    /\ location_timestamps' = r.location_timestamps
    /\ location_simplex_ids' = r.location_simplex_ids

\* the pending window holds two or more vertices
PendingWindow == Cardinality(temporal_vertices) >= 2

\* an entry at ts comes more than W after the end of the pending window
ClosesWindow(ts) == window_end # NULL /\ ts - window_end > WindowMinutes

\* witness_builder.add_entry(vertex_ids, ts, location) and the histories of the
\* windows and the locations
AddEntryCall(vertex_ids, ts, location) ==
    /\ vertex_ids # <<>> => entries_added < MaxEntries
    /\ BuilderBecomes(add_entry(builder_state, StoreUser, vertex_ids, ts, location))
    /\ entries_added' = IF vertex_ids = <<>> THEN entries_added ELSE entries_added + 1
    /\ closed_windows' =
          IF vertex_ids # <<>> /\ ClosesWindow(ts) /\ PendingWindow
          THEN closed_windows \cup {temporal_vertices}
          ELSE closed_windows
    /\ location_given' =
          IF vertex_ids # <<>> /\ location \in Locations
          THEN [location_given EXCEPT
                   ![location] =
                      [vertices   |-> @.vertices \cup Range(vertex_ids),
                       timestamps |-> Append(@.timestamps, ts),
                       sets       |-> IF Cardinality(@.vertices \cup Range(vertex_ids)) >= 2
                                      THEN @.sets \cup {@.vertices \cup Range(vertex_ids)}
                                      ELSE @.sets]]
          ELSE location_given
    /\ UNCHANGED <<first_insert, store_vars, edge_vars, other_vars>>

\* witness_builder.add_entry(vertex_ids, ts, location), timestamps in any order
AddEntry(vertex_ids, ts, location) ==
    /\ AddEntryCall(vertex_ids, ts, location)
    /\ UNCHANGED window_log

\* witness_builder.add_entry(vertex_ids, ts, location) with a timestamp not before
\* that of the call before; a window is started by the first entry with vertices
\* and by an entry more than WindowMinutes after the last entry with vertices
AddEntryInOrder(vertex_ids, ts, location) ==
    /\ ts >= window_log.time
    /\ AddEntryCall(vertex_ids, ts, location)
    /\ window_log' =
          IF vertex_ids = <<>> THEN [window_log EXCEPT !.time = ts]
          ELSE [given |-> IF window_log.last = NULL \/ ts - window_log.last > WindowMinutes
                          THEN Range(vertex_ids)
                          ELSE window_log.given \cup Range(vertex_ids),
                last  |-> ts,
                time  |-> ts]

\* witness_builder.finalize()
Finalize ==
    /\ BuilderBecomes(finalize(builder_state, StoreUser))
    /\ closed_windows' =
          IF PendingWindow THEN closed_windows \cup {temporal_vertices} ELSE closed_windows
    /\ UNCHANGED <<entries_added, location_given, window_log, first_insert, store_vars, edge_vars,
                   other_vars>>

\* the users whose SimplexTree is driven
TreeUsers == {1}

Next ==
    \/ \E u \in TreeUsers, vs \in VertexLists, l \in Labels :
          InsertSimplex(u, vs, l[1], l[2])
    \/ \E u \in TreeUsers, vs \in VertexLists, c \in BOOLEAN : RemoveSimplex(u, vs, c)

Spec == Init /\ [][Next]_vars

NextInsert ==
    \E u \in TreeUsers, vs \in VertexLists, l \in Labels :
       InsertSimplexRecorded(u, vs, l[1], l[2])

SpecInsert == Init /\ [][NextInsert]_vars

NextStore ==
    \E content \in Contents, ts \in Timestamps, embed_ok \in BOOLEAN :
       GetOrCreateVertex(content, ts, embed_ok)

SpecStore == Init /\ [][NextStore]_vars

\* one KnowledgeStore given contents whose case folding is not their lower case
NextFold ==
    \E content \in FoldContents, ts \in Timestamps, embed_ok \in BOOLEAN :
       GetOrCreateVertex(content, ts, embed_ok)

SpecFold == Init /\ [][NextFold]_vars

\* one database, a sequence of KnowledgeStore instances opened on it
NextReopen ==
    \/ \E content \in Contents, ts \in Timestamps, embed_ok \in BOOLEAN :
          GetOrCreateVertex(content, ts, embed_ok)
    \/ OpenStore

SpecReopen == Init /\ [][NextReopen]_vars

NextEdge ==
    \E tail_vertex \in 1..MaxVertexId, head_vertex \in 1..MaxVertexId :
       \E relationship \in Predicates, ts \in Timestamps :
          CreateEdge(tail_vertex, head_vertex, relationship, ts)

SpecEdge == InitEdge /\ [][NextEdge]_vars

NextBuilder ==
    \/ \E vertex_ids \in EntryLists, ts \in EntryTimes :
          \E location \in Locations \cup {NoLocation} : AddEntry(vertex_ids, ts, location)
    \/ Finalize

SpecBuilder == Init /\ [][NextBuilder]_vars

\* the builder fed in the order of time
NextWindow ==
    \/ \E vertex_ids \in EntryLists, ts \in EntryTimes :
          \E location \in Locations \cup {NoLocation} :
             AddEntryInOrder(vertex_ids, ts, location)
    \/ Finalize

SpecWindow == Init /\ [][NextWindow]_vars

----------------------------------------------------------------------------
(* Vocabulary of the properties *)

NonEmptyLists == VertexLists \ {<<>>}

\* the lists that name a vertex set: no id twice
SetLists == {s \in NonEmptyLists : Cardinality(Range(s)) = Len(s)}

\* the values of max_extra_depth tried: no descent, a bounded descent, unlimited
ExtraDepths == {int_depth(0), int_depth(1), None}

\* a negative max_extra_depth, which the signature accepts: an int, not None
NegativeDepth == int_depth(-1)

StrictlyIncreasing(s) == \A i \in 1..(Len(s) - 1) : s[i] < s[i + 1]

IsPrefix(p, s) == Len(p) <= Len(s) /\ SubSeq(s, 1, Len(p)) = p

\* root-to-self path of a stored node
NodePath(n) == collect_path(simplex_vertex, n.node_id)

NodesOf(u) == {n \in simplex_vertex : n.user_id = u}

NodeById(id) == CHOOSE n \in simplex_vertex : n.node_id = id

\* the sorted lists insert_simplex was called with for user u
InsertedLists(u) == {k[2] : k \in {x \in DOMAIN first_insert : x[1] = u}}

AllPathsIncreasing == \A n \in simplex_vertex : StrictlyIncreasing(NodePath(n))

----------------------------------------------------------------------------
(* Properties of the simplex tree *)

\* C1 (as claimed): after any insert_simplex / remove_simplex calls with non-empty
\* lists, unsorted or repeating an id, every node's root-to-self path is strictly
\* increasing in vertex_id.
C1_SortedPath == AllPathsIncreasing

\* C2 (as claimed): search_simplex(vs) returns an id iff insert_simplex was called
\* with the same vertex set, and the id is the one that insert returned.
C2_SearchIffInserted ==
    \A u \in TreeUsers, vs \in NonEmptyLists :
       LET id == search_simplex(simplex_vertex, u, vs)
           same == {ws \in InsertedLists(u) : Range(ws) = Range(vs)}
       IN /\ (id # NULL) <=> (same # {})
          /\ (id # NULL) => id \in {first_insert[<<u, ws>>].ret : ws \in same}

\* C2 (amended): search_simplex(vs) returns an id iff sorted(vs) is a prefix
\* (possibly the whole) of the sorted list of an earlier insert_simplex; when
\* insert_simplex was called with a list that sorts to sorted(vs), the id is the one
\* the first such insert returned; after inserting only [1,2,3], search([2,3]) and
\* search([1,2,4]) return none.
C2_SearchFindsInsertedPrefixes ==
    \A u \in TreeUsers, vs \in NonEmptyLists :
       LET id == search_simplex(simplex_vertex, u, vs)
       IN /\ (id # NULL) <=> (\E ws \in InsertedLists(u) : IsPrefix(sorted(vs), ws))
          /\ <<u, sorted(vs)>> \in DOMAIN first_insert
                => id = first_insert[<<u, sorted(vs)>>].ret
          /\ InsertedLists(u) = {<<1, 2, 3>>}
                => /\ search_simplex(simplex_vertex, u, <<2, 3>>) = NULL
                   /\ search_simplex(simplex_vertex, u, <<1, 2, 4>>) = NULL

\* C2 witness: only [1,2,3] was inserted; search finds it under the id the insert
\* returned, finds its prefix [1,2] given unsorted, and does not find [2,3].
C2_Witness ==
    /\ InsertedLists(1) = {<<1, 2, 3>>}
    /\ search_simplex(simplex_vertex, 1, <<3, 2, 1>>) = first_insert[<<1, <<1, 2, 3>>>>].ret
    /\ search_simplex(simplex_vertex, 1, <<2, 1>>) # NULL
    /\ search_simplex(simplex_vertex, 1, <<2, 3>>) = NULL

\* C3 (as claimed): for every simplex sigma in the tree and every non-empty subset
\* tau of sigma, locate_cofaces(tau) called without max_extra_depth includes sigma.
C3_CofaceCorrectness ==
    \A n \in simplex_vertex :
       \A tau \in {t \in SetLists : Range(t) \subseteq Range(NodePath(n))} :
          \A res \in locate_cofaces_default(simplex_vertex, n.user_id, tau, FALSE) :
             NodePath(n) \in Range(res)

\* C4: for any tree state, non-empty tau and max_extra_depth, every path
\* locate_cofaces(tau) returns is the root-to-self path of a node of this user and
\* contains every vertex of tau; so does every coface of the retriever's call
\* (in whichever order the rows are fetched).
C4_CofaceSoundness ==
    \A u \in Users :
       \A stored \in {{<<NodePath(n), n.type, n.meta_data>> : n \in NodesOf(u)}} :
          \A tau \in NonEmptyLists :
             /\ \A d \in ExtraDepths \cup {NegativeDepth} :
                   \A res \in locate_cofaces(simplex_vertex, u, tau, FALSE, d) :
                      \A p \in Range(res) :
                         /\ \E n \in stored : n[1] = p
                         /\ Range(tau) \subseteq Range(p)
             /\ \A res \in locate_cofaces_default(simplex_vertex, u, tau, TRUE) :
                   \A c \in Range(res) :
                      /\ <<c[1], c[2], json_dumps(c[3])>> \in stored
                      /\ Range(tau) \subseteq Range(c[1])

\* C4 witness: a lookup whose descent emits a node below the candidate when the
\* depth is None and does not when it is 0 or negative, and a
\* candidate for tau's last vertex that the subsequence test rejects.
C4_Witness ==
    /\ \E tau \in SetLists :
          /\ \E res \in locate_cofaces(simplex_vertex, 1, tau, FALSE, None) : Len(res) >= 2
          /\ \E res \in locate_cofaces(simplex_vertex, 1, tau, FALSE, int_depth(0)) : Len(res) = 1
          /\ \A res \in locate_cofaces(simplex_vertex, 1, tau, FALSE, NegativeDepth) :
                Len(res) = 1
    /\ \E tau \in SetLists :
          \E cand \in coface_candidates(simplex_vertex, 1, sorted(tau)[Len(tau)], Len(tau)) :
             ~is_subsequence(sorted(tau), NodePath(cand))

\* the paths of user u's nodes whose vertex set contains tau
Supersets(u, tau) ==
    {NodePath(n) : n \in {m \in NodesOf(u) : Range(tau) \subseteq Range(NodePath(m))}}

\* C5: when all paths are strictly increasing, locate_cofaces(tau,
\* max_extra_depth=None) returns exactly the paths of this user's nodes whose vertex
\* set contains tau, each exactly once (in whichever order the rows are fetched).
C5_UnlimitedExact ==
    AllPathsIncreasing =>
       \A u \in Users, tau \in SetLists :
          \A res \in locate_cofaces(simplex_vertex, u, tau, FALSE, None) :
             /\ Range(res) = Supersets(u, tau)
             /\ Cardinality(Range(res)) = Len(res)

\* C5 witness: increasing paths, and a tau whose cofaces come from two candidates.
C5_Witness ==
    /\ AllPathsIncreasing
    /\ \E tau \in SetLists :
          /\ Cardinality(coface_candidates(simplex_vertex, 1, sorted(tau)[Len(tau)], Len(tau))) >= 2
          /\ \E res \in locate_cofaces(simplex_vertex, 1, tau, FALSE, None) : Len(res) >= 2

\* C6: when the full path of sorted(vs) exists, insert_simplex(vs, type2, meta2)
\* returns the existing terminal node's id, creates no node and leaves every node's
\* type and meta_data as they were, whatever type2 and meta2 are.
C6_DuplicateInsertIdempotent ==
    \A u \in Users, vs \in NonEmptyLists :
       \A id \in {search_simplex(simplex_vertex, u, vs)} \ {NULL} :
          \A t \in SimplexTypes, m \in MetaDicts :
             insert_simplex(simplex_vertex, last_node_id, u, vs, t, m)
                = [rows |-> simplex_vertex, last_id |-> last_node_id, ret |-> id,
                   error |-> ""]

\* C6 witness: a stored simplex is inserted again with another type and meta_data.
C6_Witness ==
    \E vs \in NonEmptyLists, t \in SimplexTypes, m \in MetaDicts :
       LET id == search_simplex(simplex_vertex, 1, vs)
       IN /\ id # NULL
          /\ NodeById(id).type # t
          /\ NodeById(id).meta_data # json_dumps(m)
          /\ insert_simplex(simplex_vertex, last_node_id, 1, vs, t, m).ret = id

\* C7 (as claimed): after any insert_simplex calls, the type and meta_data on a node
\* are those of the simplex that ends at that node (those its insert was given), and
\* a node that only lies on the way to an inserted simplex does not carry the type
\* and meta_data given for that simplex.
C7_LabelsOnlyOnTerminal ==
    \A n \in simplex_vertex :
       \A k \in {<<n.user_id, NodePath(n)>>} :
          IF k \in DOMAIN first_insert
          THEN /\ n.type = first_insert[k].type
               /\ n.meta_data = json_dumps(first_insert[k].meta)
          ELSE \A w \in DOMAIN first_insert :
                  (w[1] = k[1] /\ IsPrefix(k[2], w[2])) =>
                     ~(/\ n.type = first_insert[w].type
                       /\ n.meta_data = json_dumps(first_insert[w].meta))

\* C8: when the simplex of vs is present, remove_simplex(vs, remove_cofaces=True)
\* returns True and no surviving node of this user has a path that starts with
\* sorted(vs).
C8_CascadeRemoval ==
    \A u \in Users, vs \in NonEmptyLists :
       \A id \in {search_simplex(simplex_vertex, u, vs)} \ {NULL} :
          \A r \in {remove_simplex(simplex_vertex, u, vs, TRUE)} :
             /\ r.ret = TRUE
             /\ r.error = ""
             /\ \A n \in r.rows : n.user_id = u => ~IsPrefix(sorted(vs), NodePath(n))

\* C8 witness: a cascade removal that deletes a node, its child and its grandchild
\* and leaves nothing under sorted(vs).
C8_Witness ==
    \E vs \in NonEmptyLists :
       LET r == remove_simplex(simplex_vertex, 1, vs, TRUE)
       IN /\ r.ret = TRUE
          /\ Cardinality(simplex_vertex \ r.rows) >= 3
          /\ search_simplex(r.rows, 1, vs) = NULL

\* C9: remove_simplex(vs, remove_cofaces=False) on a node with a child fails with
\* the has-cofaces error and leaves the tree unchanged; on a leaf it deletes that one
\* node and returns True; on an absent simplex either mode returns False and leaves
\* the tree unchanged.
C9_NonCascadeRule ==
    \A u \in Users, vs \in VertexLists :
       \A id \in {search_simplex(simplex_vertex, u, vs)} :
          \A r \in {remove_simplex(simplex_vertex, u, vs, FALSE)} :
             IF id = NULL
             THEN /\ r = [rows |-> simplex_vertex, ret |-> FALSE, error |-> ""]
                  /\ remove_simplex(simplex_vertex, u, vs, TRUE) = r
             ELSE IF \E n \in simplex_vertex : n.parent_id = id
             THEN /\ r.error = "ValueError: Simplex has cofaces"
                  /\ r.rows = simplex_vertex
             ELSE /\ r.error = ""
                  /\ r.ret = TRUE
                  /\ r.rows = simplex_vertex \ {NodeById(id)}

\* C9 witness: after a removal, the tree holds a node with a child (removal
\* refused), a leaf (removed alone) and lacks some simplex (removal returns False).
C9_Witness ==
    /\ last_node_id > Cardinality(simplex_vertex)
    /\ \E a \in NonEmptyLists : remove_simplex(simplex_vertex, 1, a, FALSE).error # ""
    /\ \E b \in NonEmptyLists :
          \E r \in {remove_simplex(simplex_vertex, 1, b, FALSE)} :
             r.ret = TRUE /\ Cardinality(r.rows) = Cardinality(simplex_vertex) - 1
    /\ \E c \in NonEmptyLists :
          /\ search_simplex(simplex_vertex, 1, c) = NULL
          /\ remove_simplex(simplex_vertex, 1, c, FALSE).ret = FALSE

----------------------------------------------------------------------------
(* Properties of the knowledge store *)

\* case folding of one character: the lower-case letter, and "ss" for the sharp s,
\* which str.lower() leaves as it is
casefold_char(c) ==
    IF c = "ß" THEN <<"s", "s">> ELSE <<lower_char(c)>>

\* case folding of a string
RECURSIVE casefold(_)
casefold(str) ==
    IF str = <<>> THEN <<>> ELSE casefold_char(Head(str)) \o casefold(Tail(str))

\* the key the specification gives a content: case-fold(trim(content))
claimed_key(content) == casefold(strip(content))

RowsWithKey(k) ==
    {row \in user_knowledge_vertex :
        row.user_id = StoreUser /\ claimed_key(row.content) = k}

\* C10 (as claimed): on one KnowledgeStore, get_or_create_vertex calls whose
\* contents have the same case-folded, trimmed form return the same vertex_id,
\* whatever other calls come between them, and one vertex row exists for that key.
C10_Canonicalization ==
    /\ \A a \in returned, b \in returned :
          claimed_key(a[1]) = claimed_key(b[1]) => a[2] = b[2]
    /\ \A a \in returned :
          \E row \in user_knowledge_vertex :
             /\ row.vertex_id = a[2]
             /\ RowsWithKey(claimed_key(a[1])) = {row}

\* meta_data["first_seen"] and meta_data["last_seen"] of a vertex row
first_seen(row) == dict_get(json_loads(row.meta_data), "first_seen", NULL)

last_seen(row) == dict_get(json_loads(row.meta_data), "last_seen", NULL)

\* C11 (as claimed): after any get_or_create_vertex calls made through one or
\* several successive KnowledgeStore instances on the same database, no two vertex
\* rows of the user have the same case-folded, trimmed content.
C11_UniqueAcrossStores ==
    \A a \in user_knowledge_vertex, b \in user_knowledge_vertex :
       (a.user_id = b.user_id /\ claimed_key(a.content) = claimed_key(b.content))
          => a = b

\* C12: a first observation creates the vertex with meta {first_seen: ts,
\* last_seen: ts, frequency: 1}; a later get_or_create_vertex on the same canonical
\* key adds exactly 1 to frequency, sets last_seen to the call's ts and leaves
\* first_seen, the stored content and every other row unchanged; so frequency does
\* not decrease, and last_seen does not decrease when ts is not before it.
C12_MetadataAggregation ==
    \A content \in Contents, ts \in Timestamps :
       \A r \in {get_or_create_vertex(user_knowledge_vertex, last_vertex_id, vertex_cache,
                                      StoreUser, content, ts, TRUE)} :
          \A hit \in {RowsWithKey(claimed_key(content))} :
             \A written \in {{row \in r.table : row.vertex_id = r.ret}} :
                IF hit = {}
                THEN /\ r.table \ written = user_knowledge_vertex
                     /\ \E new \in written :
                           /\ written = {new}
                           /\ new \notin user_knowledge_vertex
                           /\ new.content = content
                           /\ json_loads(new.meta_data)
                                 = << <<"first_seen", ts>>, <<"last_seen", ts>>,
                                      <<"frequency", 1>> >>
                ELSE /\ r.table \ written = user_knowledge_vertex \ hit
                     /\ \E old \in hit, new \in written :
                           /\ hit = {old}
                           /\ written = {new}
                           /\ new.vertex_id = old.vertex_id
                           /\ new.content = old.content
                           /\ new.embedding = old.embedding
                           /\ frequency(new) = frequency(old) + 1
                           /\ last_seen(new) = ts
                           /\ first_seen(new) = first_seen(old)
                           /\ frequency(new) >= frequency(old)
                           /\ ts >= last_seen(old) => last_seen(new) >= last_seen(old)

\* C12 witness: "Pa" was stored at ts 1 and observed again as "PA " at ts 2: the
\* row reads first_seen 1, last_seen 2, frequency 2 and content "Pa".
C12_Witness ==
    /\ <<<<"P", "A", " ">>, 1>> \in returned
    /\ \E row \in user_knowledge_vertex :
          /\ row.vertex_id = 1
          /\ row.content = <<"P", "a">>
          /\ json_loads(row.meta_data)
                = << <<"first_seen", 1>>, <<"last_seen", 2>>, <<"frequency", 2>> >>
    /\ \E row \in user_knowledge_vertex : row.vertex_id = 2

\* C14: when extractor.embed fails on a cache miss, get_or_create_vertex fails,
\* inserts no vertex row and leaves the cache without an entry for the key; a later
\* call with the same content takes the miss path again and creates the vertex.
C14_EmbedFailureCreatesNothing ==
    \A content \in Contents, ts \in Timestamps :
       canonical_key(content) \notin DOMAIN vertex_cache =>
          \A r \in {get_or_create_vertex(user_knowledge_vertex, last_vertex_id,
                                         vertex_cache, StoreUser, content, ts, FALSE)} :
             /\ r.error # ""
             /\ r.table = user_knowledge_vertex
             /\ r.last_id = last_vertex_id
             /\ r.cache = vertex_cache
             /\ canonical_key(content) \notin DOMAIN r.cache
             /\ \A again \in {get_or_create_vertex(r.table, r.last_id, r.cache, StoreUser,
                                                   content, ts, TRUE)} :
                   /\ again.error = ""
                   /\ again.ret = last_vertex_id + 1
                   /\ Cardinality(again.table) = Cardinality(user_knowledge_vertex) + 1

\* C14 witness: a store that holds a vertex, and a content it has not seen whose
\* embedding fails.
C14_Witness ==
    /\ user_knowledge_vertex # {}
    /\ \E content \in Contents :
          /\ canonical_key(content) \notin DOMAIN vertex_cache
          /\ get_or_create_vertex(user_knowledge_vertex, last_vertex_id, vertex_cache,
                                  StoreUser, content, 1, FALSE).error # ""

----------------------------------------------------------------------------
(* Properties of the edges *)

EdgeTriple(e) == <<e.tail_vertex, e.head_vertex, e.content>>

\* C13: create_edge calls with equal (tail, head, predicate), at any timestamps
\* and with other calls between them, return the same edge_id; one edge row exists
\* for the triple, with the meta_data of the first call (created_at = its
\* timestamp); no row exists for a triple create_edge was not called with, the
\* reverse direction included.
C13_EdgeIdempotence ==
    /\ \A k \in DOMAIN first_edge :
          \E e \in user_knowledge_edge :
             /\ {x \in user_knowledge_edge : x.user_id = StoreUser /\ EdgeTriple(x) = k} = {e}
             /\ e.edge_id = first_edge[k].ret
             /\ json_loads(e.meta_data) = << <<"created_at", first_edge[k].ts>> >>
             /\ \A ts \in Timestamps :
                   create_edge(user_knowledge_edge, last_edge_id, StoreUser, k[1], k[2],
                               k[3], ts)
                      = [table |-> user_knowledge_edge, last_id |-> last_edge_id,
                         ret |-> first_edge[k].ret]
    /\ \A e \in user_knowledge_edge : EdgeTriple(e) \in DOMAIN first_edge

\* C13 witness: an edge 1 -> 2 created at ts 1, other edges created after it, no
\* edge 2 -> 1 with its predicate, and a repeated call at ts 2 returns its id.
C13_Witness ==
    \E p \in Predicates :
       /\ <<1, 2, p>> \in DOMAIN first_edge
       /\ first_edge[<<1, 2, p>>].ts = 1
       /\ <<2, 1, p>> \notin DOMAIN first_edge
       /\ Cardinality(user_knowledge_edge) >= 2
       /\ first_edge[<<1, 2, p>>].ret < last_edge_id
       /\ create_edge(user_knowledge_edge, last_edge_id, StoreUser, 1, 2, p, 2).ret
             = first_edge[<<1, 2, p>>].ret

----------------------------------------------------------------------------
(* Properties of the witness-complex builder *)

\* the entries add_entry processes and the locations it may be given
Entries == EntryLists \ {<<>>}

EntryLocations == Locations \cup {NoLocation}

\* the nodes of rows whose root-to-self path is the sorted list of the set S
NodesOver(rows, S) ==
    {n \in rows : n.user_id = StoreUser /\ collect_path(rows, n.node_id) = sorted(list_of(S))}

\* C15 (as claimed): when add_entry receives an entry with ts - window_end > W,
\* then after the call the new window is {set(vids), ts, ts}; if the pending
\* window held two or more vertices the tree has a node over exactly that vertex
\* set with type "temporal" and meta {window_start, window_end, window_minutes} of
\* that window; with fewer than two vertices the flush inserts nothing.
C15_TemporalFlush ==
    \A vertex_ids \in Entries, ts \in EntryTimes, location \in EntryLocations :
       ClosesWindow(ts) =>
          \A r \in {add_entry(builder_state, StoreUser, vertex_ids, ts, location)} :
             /\ r.temporal_vertices = Range(vertex_ids)
             /\ r.window_start = ts
             /\ r.window_end = ts
             /\ IF PendingWindow
                THEN \E n \in NodesOver(r.rows, temporal_vertices) :
                        /\ n.type = "temporal"
                        /\ json_loads(n.meta_data) = temporal_meta(window_start, window_end)
                ELSE flush_temporal_window(builder_state, StoreUser).rows = simplex_vertex

\* C16: finalize() on a pending window of two or more vertices leaves a node that
\* search_simplex(window_vertices) finds and removes nothing; on a smaller window,
\* or when no window was started, it leaves the tree unchanged; every window of
\* two or more vertices that ended, by a later entry or by finalize, is found in
\* the tree.
C16_FinalizeFlushes ==
    /\ \A r \in {finalize(builder_state, StoreUser)} :
          IF PendingWindow
          THEN /\ search_simplex(r.rows, StoreUser, list_of(temporal_vertices)) # NULL
               /\ simplex_vertex \subseteq r.rows
          ELSE r.rows = simplex_vertex
    /\ \A w \in closed_windows :
          search_simplex(simplex_vertex, StoreUser, list_of(w)) # NULL

\* C16 witness: the window {1,2,3} that two entries accumulated was closed by
\* finalize, no entry came after it, and it is found.
C16_Witness ==
    /\ entries_added = 2
    /\ closed_windows = {{1, 2, 3}}
    /\ temporal_vertices = {1, 2, 3}
    /\ search_simplex(simplex_vertex, StoreUser, <<3, 2, 1>>) # NULL

\* C17 (as claimed): when add_entry receives an entry with ts < window_end, the
\* vertices are unioned into the window, window_start stays, nothing stored is
\* touched and the temporal part inserts nothing, and window_end is the later of
\* the previous window_end and ts.
C17_OutOfOrder ==
    \A vertex_ids \in Entries, ts \in EntryTimes, location \in EntryLocations :
       (window_end # NULL /\ ts < window_end) =>
          \A r \in {add_entry(builder_state, StoreUser, vertex_ids, ts, location)} :
             /\ r.temporal_vertices = temporal_vertices \cup Range(vertex_ids)
             /\ r.window_start = window_start
             /\ simplex_vertex \subseteq r.rows
             /\ location = NoLocation => r.rows = simplex_vertex
             /\ r.window_end = IF ts > window_end THEN ts ELSE window_end

\* C18: location_vertices[L] is the union of the vertices given for L and
\* location_timestamps[L] holds the ts of each entry given for L; whenever the
\* accumulated set has two or more vertices search_simplex finds it, before and
\* after every further add_entry; the sets L went through earlier are still
\* found, and add_entry removes no node.
C18_LocationAccumulates ==
    /\ \A l \in Locations :
          /\ location_vertices[l] = location_given[l].vertices
          /\ location_timestamps[l] = location_given[l].timestamps
          /\ \A S \in location_given[l].sets :
                search_simplex(simplex_vertex, StoreUser, list_of(S)) # NULL
          /\ Cardinality(location_vertices[l]) >= 2
                => location_vertices[l] \in location_given[l].sets
    /\ \A vertex_ids \in Entries, ts \in EntryTimes, l \in Locations :
          \A r \in {add_entry(builder_state, StoreUser, vertex_ids, ts, l)} :
             /\ r.location_vertices[l] = location_vertices[l] \cup Range(vertex_ids)
             /\ r.location_timestamps[l] = Append(location_timestamps[l], ts)
             /\ \A other \in Locations \ {l} :
                   /\ r.location_vertices[other] = location_vertices[other]
                   /\ r.location_timestamps[other] = location_timestamps[other]
             /\ Cardinality(r.location_vertices[l]) >= 2
                   => search_simplex(r.rows, StoreUser, list_of(r.location_vertices[l])) # NULL
             /\ simplex_vertex \subseteq r.rows

\* C18 witness: "home" was given [3,2] and later [1]: its set went through {2,3}
\* and {1,2,3}, and both are found.
C18_Witness ==
    /\ location_given["home"].sets = {{2, 3}, {1, 2, 3}}
    /\ Len(location_timestamps["home"]) = 2
    /\ location_vertices["work"] = {}
    /\ search_simplex(simplex_vertex, StoreUser, <<2, 3>>) # NULL
    /\ search_simplex(simplex_vertex, StoreUser, <<1, 2, 3>>) # NULL

\* C19 (as claimed): after every add_entry with location L whose accumulated set
\* has two or more vertices, the node of that set has type "location" and meta
\* {location: L, first_seen: min of L's timestamps, last_seen: max of them,
\* entry_count: their number}.
C19_LocationLabelsCurrent ==
    \A vertex_ids \in Entries, ts \in EntryTimes, l \in Locations :
       \A r \in {add_entry(builder_state, StoreUser, vertex_ids, ts, l)} :
          Cardinality(r.location_vertices[l]) >= 2 =>
             \E n \in NodesOver(r.rows, r.location_vertices[l]) :
                /\ n.type = "location"
                /\ json_loads(n.meta_data) = location_meta(l, r.location_timestamps[l])

----------------------------------------------------------------------------
(* Properties of gap detection *)

\* the sorted lists of the subsets of sigma of two or more vertices, sigma left out
ProperFaces(sigma) ==
    {f \in AllLists : /\ StrictlyIncreasing(f)
                      /\ Len(f) >= 2
                      /\ Range(f) \subseteq Range(sigma)
                      /\ f # sorted(sigma)}

\* the simplices sigma that were inserted alone into the empty tree
LoneSimplices == {sigma \in SetLists : Len(sigma) >= 2 /\ InsertedLists(1) = {sorted(sigma)}}

\* C20 (as claimed): after inserting a single simplex sigma of two or more
\* vertices into an empty tree, detect_gaps([sigma]) returns exactly the proper
\* subsets of sigma of two or more vertices.
C20_GapsOfLoneSimplex ==
    \A sigma \in LoneSimplices :
       Range(detect_gaps(simplex_vertex, 1, <<sigma>>)) = ProperFaces(sigma)

\* C20 (amended): after inserting a single simplex sigma of two or more vertices
\* into an empty tree, detect_gaps([sigma]) returns, each once, exactly the proper
\* subsets of sigma of two or more vertices that are not a prefix of sorted(sigma);
\* for sigma = [1,2,3] the result is [1,3], [2,3].
C20_GapsAreNonPrefixFaces ==
    \A sigma \in LoneSimplices :
       \A gaps \in {detect_gaps(simplex_vertex, 1, <<sigma>>)} :
          /\ Range(gaps) = {f \in ProperFaces(sigma) : ~IsPrefix(f, sorted(sigma))}
          /\ Cardinality(Range(gaps)) = Len(gaps)
          /\ sorted(sigma) = <<1, 2, 3>> => gaps = << <<1, 3>>, <<2, 3>> >>

\* C20 witness: [1,2,3] alone was inserted; [1,3] and [2,3] are gaps, [1,2] is not.
C20_Witness ==
    /\ InsertedLists(1) = {<<1, 2, 3>>}
    /\ detect_gaps(simplex_vertex, 1, << <<3, 2, 1>> >>) = << <<1, 3>>, <<2, 3>> >>
    /\ search_simplex(simplex_vertex, 1, <<1, 2>>) # NULL

----------------------------------------------------------------------------
(* Two users on one database *)

\* the lists the two tenants pass to their trees: the empty list (refused), single
\* vertices, a prefix chain and unsorted lists, over ids both tenants use
TenantLists == {<<>>, <<1>>, <<2>>, <<2, 1>>, <<3, 2>>, <<1, 2, 3>>}

NextTenants ==
    \/ \E u \in Users, vs \in TenantLists, l \in Labels :
          InsertSimplex(u, vs, l[1], l[2])
    \/ \E u \in Users, vs \in TenantLists, c \in BOOLEAN : RemoveSimplex(u, vs, c)

SpecTenants == Init /\ [][NextTenants]_vars

\* the tables a call through the tree of user b can leave behind
AfterCallBy(b) ==
    {insert_simplex(simplex_vertex, last_node_id, b, vs, l[1], l[2]).rows :
        vs \in TenantLists, l \in Labels}
    \cup {remove_simplex(simplex_vertex, b, vs, c).rows : vs \in TenantLists, c \in BOOLEAN}

\* the queries a tenant asks
TenantQueries == (TenantLists \ {<<>>}) \cup {<<3>>, <<2, 3>>}

\* everything user a can read of the table rows through search_simplex and
\* locate_cofaces (for locate_cofaces, the lists the call can return)
ViewOf(rows, a) ==
    [q \in TenantQueries |->
        [search |-> search_simplex(rows, a, q),
         locate |-> [d \in ExtraDepths, m \in BOOLEAN |-> locate_cofaces(rows, a, q, m, d)]]]

\* C25: for two users a # b on one database, no insert_simplex or remove_simplex
\* call through b's tree (any list, ids a uses included) changes a result of a's
\* search_simplex or locate_cofaces (every max_extra_depth, with and without
\* metadata), and no node of a has a parent that belongs to b.
C25_TenantIsolation ==
    \A a \in Users :
       /\ \A n \in NodesOf(a) :
             n.parent_id # NULL =>
                \A p \in simplex_vertex : p.node_id = n.parent_id => p.user_id = a
       /\ \A view \in {ViewOf(simplex_vertex, a)} :
             \A b \in Users \ {a} :
                \A rows \in AfterCallBy(b) : ViewOf(rows, a) = view

\* C25 witness: both users hold the vertex [1] and user 1 holds [1,2] under its
\* own; a cascade removal of [1] through user 2's tree deletes user 2's node alone,
\* and user 1 still finds [1,2] as a coface of [1].
C25_Witness ==
    /\ search_simplex(simplex_vertex, 1, <<1, 2>>) # NULL
    /\ search_simplex(simplex_vertex, 2, <<1>>) # NULL
    /\ \E r \in {remove_simplex(simplex_vertex, 2, <<1>>, TRUE)} :
          /\ r.ret = TRUE
          /\ simplex_vertex \ r.rows \subseteq NodesOf(2)
          /\ \A res \in locate_cofaces(r.rows, 1, <<1>>, FALSE, None) : <<1, 2>> \in Range(res)

\* C27 inputs: lists of cofaces as the retriever passes them; a coface of one
\* vertex, unsorted cofaces, and cofaces that share the face [2,3]
CofaceLists ==
    { <<>>,
      << <<2>> >>,
      << <<2, 1>> >>,
      << <<3, 2, 1>> >>,
      << <<1, 2, 3>>, <<3, 2>> >>,
      << <<1, 2>>, <<1, 3>> >>,
      << <<3, 2>>, <<2, 3>>, <<1>> >> }

\* the sorted lists of the subsets of two or more vertices of a coface in cofaces
FacesOf(cofaces) ==
    {f \in AllLists : /\ StrictlyIncreasing(f)
                      /\ Len(f) >= 2
                      /\ \E i \in DOMAIN cofaces : Range(f) \subseteq Range(cofaces[i])}

\* C27: for any tree state and any list of cofaces, detect_gaps returns exactly
\* the subsets of two or more vertices of the given cofaces that search_simplex
\* does not find, each once even when it is a face of several cofaces; no result
\* has one vertex and no result is present as a node.
C27_GapDetection ==
    \A u \in Users, cofaces \in CofaceLists :
       \A gaps \in {detect_gaps(simplex_vertex, u, cofaces)} :
          /\ Range(gaps) =
                {f \in FacesOf(cofaces) : search_simplex(simplex_vertex, u, f) = NULL}
          /\ Cardinality(Range(gaps)) = Len(gaps)
          /\ \A i \in DOMAIN gaps :
                /\ Len(gaps[i]) >= 2
                /\ search_simplex(simplex_vertex, u, gaps[i]) = NULL

\* C27 witness: user 1 holds [1,2] alone; of the faces of the cofaces [1,2,3] and
\* [3,2], which share the absent [2,3], the gaps are [1,3], [2,3] and [1,2,3], each
\* reported once.
C27_Witness ==
    /\ {NodePath(n) : n \in NodesOf(1)} = {<<1>>, <<1, 2>>}
    /\ detect_gaps(simplex_vertex, 1, << <<1, 2, 3>>, <<3, 2>> >>)
          = << <<1, 3>>, <<2, 3>>, <<1, 2, 3>> >>

\* C28: after any sequence of insert_simplex and remove_simplex calls (both
\* modes, refused calls included), every non-root node's parent_id names an
\* existing node of the same user, every node's depth is the number of nodes on
\* its root-to-self path (1 for a root), no two siblings of a user carry the same
\* vertex_id, and no two nodes of a user have the same path.
C28_TrieWellFormed ==
    /\ \A n \in simplex_vertex :
          n.parent_id # NULL =>
             \E p \in simplex_vertex : p.node_id = n.parent_id /\ p.user_id = n.user_id
    /\ \A n \in simplex_vertex :
          /\ n.depth = Len(NodePath(n))
          /\ n.parent_id = NULL => n.depth = 1
          /\ \A m \in NodesOf(n.user_id) :
                /\ (m.parent_id = n.parent_id /\ m.vertex_id = n.vertex_id) => m = n
                /\ NodePath(m) = NodePath(n) => m = n

\* C28 witness: a removal has happened (three nodes were created, two are left)
\* and the tree holds a node of depth 2 under a root.
C28_Witness ==
    /\ last_node_id = 3
    /\ Cardinality(simplex_vertex) = 2
    /\ \E n \in simplex_vertex : n.depth = 2 /\ n.parent_id # NULL

\* C30: a successful remove_simplex(vs, c) deletes the node of sorted(vs) and, with
\* c = True, the nodes under it, and nothing else; every other node stays as it
\* was: the proper prefixes of sorted(vs) are still found under their ids, and so
\* is every node whose path contains vs without starting with sorted(vs).
C30_RemovalFrame ==
    \A u \in Users, vs \in NonEmptyLists, c \in BOOLEAN :
       \A id \in {search_simplex(simplex_vertex, u, vs)} :
          \A r \in {remove_simplex(simplex_vertex, u, vs, c)} :
             r.ret = TRUE =>
                /\ r.rows \subseteq simplex_vertex
                /\ simplex_vertex \ r.rows =
                      IF c
                      THEN {n \in NodesOf(u) : IsPrefix(sorted(vs), NodePath(n))}
                      ELSE {NodeById(id)}
                /\ NodePath(NodeById(id)) = sorted(vs)
                /\ \A k \in 1..(Len(vs) - 1) :
                      /\ search_simplex(r.rows, u, SubSeq(sorted(vs), 1, k)) # NULL
                      /\ search_simplex(r.rows, u, SubSeq(sorted(vs), 1, k))
                            = search_simplex(simplex_vertex, u, SubSeq(sorted(vs), 1, k))
                /\ \A n \in simplex_vertex :
                      (is_subsequence(sorted(vs), NodePath(n))
                         /\ ~IsPrefix(sorted(vs), NodePath(n))) => n \in r.rows

\* C30 witness: user 1 holds [1], [1,2] and [2]; remove_simplex([2], True)
\* deletes the root [2] alone and [1,2], which contains 2, is still found.
C30_Witness ==
    /\ {NodePath(n) : n \in NodesOf(1)} = {<<1>>, <<1, 2>>, <<2>>}
    /\ \E r \in {remove_simplex(simplex_vertex, 1, <<2>>, TRUE)} :
          /\ r.ret = TRUE
          /\ Cardinality(simplex_vertex \ r.rows) = 1
          /\ search_simplex(r.rows, 1, <<1, 2>>) = search_simplex(simplex_vertex, 1, <<1, 2>>)
          /\ search_simplex(r.rows, 1, <<2>>) = NULL

----------------------------------------------------------------------------
(* What search finds *)

\* the sorted lists of vertex sets
SortedSets == {sorted(s) : s \in SetLists}

\* C29: on a tree built by insert_simplex calls with duplicate-free lists only,
\* search_simplex(vs) for a non-empty vs returns a node iff sorted(vs) is a prefix
\* (possibly the whole) of the sorted list of an earlier insert_simplex; a subset
\* of an inserted simplex that is no such prefix is not found.
C29_SearchFindsPrefixesOnly ==
    \A u \in TreeUsers :
       InsertedLists(u) \subseteq SortedSets =>
          \A vs \in NonEmptyLists :
             \A prefix \in {\E ws \in InsertedLists(u) : IsPrefix(sorted(vs), ws)} :
                /\ (search_simplex(simplex_vertex, u, vs) # NULL) <=> prefix
                /\ ((\E ws \in InsertedLists(u) : Range(vs) \subseteq Range(ws)) /\ ~prefix)
                      => search_simplex(simplex_vertex, u, vs) = NULL

\* C29 witness: [1,3] and [2] were inserted; [1] and [3,1] are found, the subset
\* [3] of [1,3] is not.
C29_Witness ==
    /\ InsertedLists(1) = {<<1, 3>>, <<2>>}
    /\ search_simplex(simplex_vertex, 1, <<1>>) # NULL
    /\ search_simplex(simplex_vertex, 1, <<3, 1>>) # NULL
    /\ search_simplex(simplex_vertex, 1, <<3>>) = NULL

----------------------------------------------------------------------------
(* The transaction of insert_simplex *)

\* tree.insert_simplex(vs, t, m) in which conn.execute raises at the k-th vertex:
\* the exception leaves the method, nothing is rolled back and nothing committed
InsertSimplexRaises(u, vs, t, m, k) ==
    /\ k \in 1..Len(vs)
    /\ \E r \in {insert_simplex_raises(simplex_vertex, last_node_id, u, vs, t, m, k)} :
          /\ r.last_id <= MaxNodeId
          /\ simplex_vertex' = r.rows
          /\ last_node_id' = r.last_id
          /\ failed_created' =
                failed_created \cup {n.node_id : n \in r.rows \ simplex_vertex}
    /\ UNCHANGED <<committed_simplex_vertex, committed_last_node_id, first_insert,
                   store_vars, edge_vars,
                   builder_vars, call_vars, pipeline_vars>>

NextTransactions ==
    \/ \E u \in TreeUsers, vs \in TenantLists, l \in Labels :
          InsertSimplex(u, vs, l[1], l[2])
    \/ \E u \in TreeUsers, vs \in TenantLists, l \in Labels, k \in 1..MaxLen :
          InsertSimplexRaises(u, vs, l[1], l[2], k)
    \/ \E u \in TreeUsers, vs \in TenantLists, c \in BOOLEAN : RemoveSimplex(u, vs, c)
    \/ \E ok \in BOOLEAN : GetOrCreateVertex(<<"P", "a">>, 1, ok)

SpecTransactions == Init /\ [][NextTransactions]_vars

\* C21 (as claimed): no node created by an insert_simplex call that failed is in
\* the committed state of the database, also after later commits of other calls on
\* the same connection.
C21_AllOrNothing ==
    \A n \in committed_simplex_vertex : n.node_id \notin failed_created

----------------------------------------------------------------------------
(* _is_subsequence on sorted lists *)

\* the sorted lists, repeats allowed
SortedLists == {s \in AllLists : s = sorted(s)}

InitSubsequence ==
    /\ TreeInit /\ StoreInit /\ EdgeInit /\ BuilderInit /\ PipelineInit
    /\ arg_needle \in SortedLists
    /\ arg_haystack \in SortedLists
    /\ subsequence_call = [called |-> FALSE, ret |-> FALSE]

\* SimplexTree._is_subsequence(needle, haystack)
IsSubsequence ==
    /\ ~subsequence_call.called
    /\ subsequence_call' = [called |-> TRUE, ret |-> is_subsequence(arg_needle, arg_haystack)]
    /\ UNCHANGED <<arg_needle, arg_haystack, tree_vars, failed_created, first_insert,
                   store_vars, edge_vars, builder_vars, pipeline_vars>>

SpecSubsequence == InitSubsequence /\ [][IsSubsequence]_vars

\* C26 (as claimed): for any two sorted integer lists a and b,
\* _is_subsequence(a, b) is true iff set(a) is a subset of set(b).
C26_SubsequenceIffSubset ==
    subsequence_call.called =>
       (subsequence_call.ret <=> Range(arg_needle) \subseteq Range(arg_haystack))

\* C26 (amended): for a strictly increasing list a and a sorted list b,
\* _is_subsequence(a, b) is true iff set(a) is a subset of set(b); for a = [1,1]
\* and b = [1] it is false although the sets are equal.
C26_SubsequenceOfStrictNeedle ==
    subsequence_call.called =>
       /\ StrictlyIncreasing(arg_needle) =>
             (subsequence_call.ret <=> Range(arg_needle) \subseteq Range(arg_haystack))
       /\ (arg_needle = <<1, 1>> /\ arg_haystack = <<1>>) => ~subsequence_call.ret

\* C26 witness: [1,3] was tested against [1,2,3], which holds a vertex in
\* between, and found.
C26_Witness ==
    /\ subsequence_call = [called |-> TRUE, ret |-> TRUE]
    /\ arg_needle = <<1, 3>>
    /\ arg_haystack = <<1, 2, 3>>

----------------------------------------------------------------------------
(* run_pipeline: the ingest loop, its checkpoint and its exits *)

\* run_pipeline is started at most MaxRuns times on one database
MaxRuns == 3

\* "if len(processed_indices) % 10 == 0": the checkpoint period
CheckpointEvery == 10

\* entry["time"]: the text of a time, and parse_timestamp on it
time_text(t) == <<"time", t>>

parse_timestamp(time_str) == time_str[2]

\* parse_title: the activity type and the content of a title
parse_title(title) ==
    CASE title.verb = "Searched for " -> [activity_type |-> "searched", content |-> title.rest]
      [] title.verb = "Visited "      -> [activity_type |-> "visited", content |-> title.rest]
      [] title.verb = "Viewed "       -> [activity_type |-> "viewed", content |-> title.rest]
      [] title = [verb |-> "", rest |-> "1 notification"]
                                      -> [activity_type |-> "notification", content |-> ""]
      [] title \in {[verb |-> "", rest |-> "Used Search"],
                    [verb |-> "", rest |-> "Ran internet speed test"]}
                                      -> [activity_type |-> "unknown", content |-> ""]
      [] OTHER                        -> [activity_type |-> "unknown", content |-> title.rest]

\* extract_notification_topics
RECURSIVE extract_notification_topics(_)
extract_notification_topics(subtitles) ==
    IF subtitles = <<>> THEN <<>>
    ELSE LET name == Head(subtitles).name
             rest == extract_notification_topics(Tail(subtitles))
         IN IF name # <<>> /\ name # <<"Including topics:">> THEN <<name>> \o rest ELSE rest

\* extract_location: the source is the pieces of its text, cut around "Home" and
\* "Work"; "Home" in s is a piece of it
extract_location(entry) ==
    IF entry.locationInfos = <<>> THEN NoLocation
    ELSE LET source == entry.locationInfos[1].source
         IN IF "Home" \in Range(source) THEN "home"
            ELSE IF "Work" \in Range(source) THEN "work"
            ELSE "other"

\* extractor.extract(activity): nothing for an empty content, else what the
\* language model answers for this entry
extract(activity, answer) ==
    IF activity.content = ""
    THEN [entities |-> <<>>, relationships |-> <<>>]
    ELSE answer

\* a search for "pa ro" at home at time 1: two entities and a relationship
EntryA ==
    [title         |-> [verb |-> "Searched for ", rest |-> "pa ro"],
     time          |-> time_text(1),
     subtitles     |-> <<>>,
     locationInfos |-> <<[source |-> <<"From", "your", "Home">>]>>,
     answer        |-> [entities      |-> << <<"P", "a">>, <<"R", "o">> >>,
                        relationships |-> <<[subject   |-> <<"P", "a">>,
                                             predicate |-> "located_in",
                                             object    |-> <<"R", "o">>]>>]]

\* a view of " pa" at time 3, more than the window after EntryA: one entity, known
EntryB ==
    [title         |-> [verb |-> "Viewed ", rest |-> "pa"],
     time          |-> time_text(3),
     subtitles     |-> <<>>,
     locationInfos |-> <<>>,
     answer        |-> [entities |-> << <<" ", "p", "a">> >>, relationships |-> <<>>]]

\* an entry without content
EntryBlank ==
    [title         |-> [verb |-> "", rest |-> "Used Search"],
     time          |-> time_text(2),
     subtitles     |-> <<>>,
     locationInfos |-> <<>>,
     answer        |-> [entities |-> <<>>, relationships |-> <<>>]]

\* a visit of "zu" at home at time 2, within the window of EntryA: one new entity
EntryC ==
    [title         |-> [verb |-> "Visited ", rest |-> "zu"],
     time          |-> time_text(2),
     subtitles     |-> <<>>,
     locationInfos |-> <<[source |-> <<"From", "your", "Home">>]>>,
     answer        |-> [entities |-> << <<"z", "u">> >>, relationships |-> <<>>]]

\* a view of "pa" at time 1 from a device that is neither at home nor at work:
\* two entities, no relationship
EntryD ==
    [title         |-> [verb |-> "Viewed ", rest |-> "pa"],
     time          |-> time_text(1),
     subtitles     |-> <<>>,
     locationInfos |-> <<[source |-> <<"From", "your", "device">>]>>,
     answer        |-> [entities |-> << <<" ", "p", "a">>, <<"R", "o">> >>,
                        relationships |-> <<>>]]

\* a view of "pa" at home at time 1: one entity
EntryX ==
    [title         |-> [verb |-> "Viewed ", rest |-> "pa"],
     time          |-> time_text(1),
     subtitles     |-> <<>>,
     locationInfos |-> <<[source |-> <<"From", "your", "Home">>]>>,
     answer        |-> [entities |-> << <<"P", "a">> >>, relationships |-> <<>>]]

\* a view of "ro" at home at time 3, more than the window after EntryX: one entity
EntryY ==
    [title         |-> [verb |-> "Viewed ", rest |-> "ro"],
     time          |-> time_text(3),
     subtitles     |-> <<>>,
     locationInfos |-> <<[source |-> <<"From", "your", "Home">>]>>,
     answer        |-> [entities |-> << <<"R", "o">> >>, relationships |-> <<>>]]

\* the search histories given to run_pipeline
Histories ==
    {<<EntryA, EntryB>>, <<EntryBlank, EntryA>>, <<EntryA, EntryC>>, <<EntryD, EntryB>>,
     <<EntryX, EntryY>>}

\* the tables and rowid counters of a store record
store_snapshot(ss) ==
    [table        |-> ss.table,
     last_id      |-> ss.last_id,
     edges        |-> ss.edges,
     last_edge_id |-> ss.last_edge_id]

\* the store, the edge table and the locals of process_entry as one record;
\* committed is the tables as the connection's last commit made them durable (no
\* store call returns with a row uncommitted)
store_state ==
    [table            |-> user_knowledge_vertex,
     last_id          |-> last_vertex_id,
     cache            |-> vertex_cache,
     edges            |-> user_knowledge_edge,
     last_edge_id     |-> last_edge_id,
     committed        |-> [table        |-> user_knowledge_vertex,
                           last_id      |-> last_vertex_id,
                           edges        |-> user_knowledge_edge,
                           last_edge_id |-> last_edge_id],
     vertex_ids       |-> <<>>,
     entity_to_vertex |-> <<>>]

\* the value of a set of one element: only({e(x) : x \in {d}}) is e with x
\* standing for the value of d
only(S) == CHOOSE x \in S : TRUE

\* self.conn.commit() in a store method
commit_store(ss) == [ss EXCEPT !.committed = store_snapshot(ss)]

\* store.get_or_create_vertex(entity, timestamp) with an embedding that answers,
\* statement by statement: the state after the INSERT or the UPDATE, after
\* "self._vertex_cache[canonical] = vertex_id" (a new vertex), after the commit
get_or_create_vertex_trace(ss, u, entity, timestamp) ==
    only({only({IF r.cache = ss.cache
                THEN <<written, commit_store(written)>>
                ELSE only({<<written, cached, commit_store(cached)>> :
                           cached \in {[written EXCEPT !.cache = r.cache]}}) :
                written \in {[ss EXCEPT !.table = r.table, !.last_id = r.last_id]}}) :
          r \in {get_or_create_vertex(ss.table, ss.last_id, ss.cache, u, entity,
                                      timestamp, TRUE)}})

\* "vid = store.get_or_create_vertex(entity, timestamp);
\* entity_to_vertex[entity.lower()] = vid; vertex_ids.append(vid)", statement by
\* statement
create_vertex(ss, u, entity, timestamp) ==
    only({only({only({call \o <<mapped, [mapped EXCEPT !.vertex_ids = Append(@, vid)]>> :
                      mapped \in {[call[Len(call)] EXCEPT !.entity_to_vertex =
                                      dict_set(@, lower(entity), vid)]}}) :
                vid \in {get_or_create_vertex(ss.table, ss.last_id, ss.cache, u, entity,
                                              timestamp, TRUE).ret}}) :
          call \in {get_or_create_vertex_trace(ss, u, entity, timestamp)}})

\* "for entity in entities: ...": trace is the states so far, the states of one
\* more entity are added at a time
RECURSIVE create_vertices(_, _, _, _)
create_vertices(trace, u, entities, timestamp) ==
    IF entities = <<>> THEN trace
    ELSE only({create_vertices(longer, u, Tail(entities), timestamp) :
               longer \in {trace \o create_vertex(trace[Len(trace)], u, Head(entities),
                                                  timestamp)}})

\* "subj_vid = entity_to_vertex.get(rel.subject.lower()); obj_vid = ...;
\* if subj_vid and obj_vid: store.create_edge(subj_vid, obj_vid, rel.predicate, ...)",
\* statement by statement: the state after the INSERT and the state after the
\* commit when an edge is made, no state otherwise
create_relationship(ss, u, rel, timestamp) ==
    LET subj_vid == dict_get(ss.entity_to_vertex, lower(rel.subject), NULL)
        obj_vid == dict_get(ss.entity_to_vertex, lower(rel.object), NULL)
    IN IF subj_vid # NULL /\ obj_vid # NULL
       THEN only({IF r.table = ss.edges THEN <<>>
                  ELSE only({<<written, commit_store(written)>> :
                             written \in {[ss EXCEPT !.edges = r.table,
                                                     !.last_edge_id = r.last_id]}}) :
                  r \in {create_edge(ss.edges, ss.last_edge_id, u, subj_vid, obj_vid,
                                     rel.predicate, timestamp)}})
       ELSE <<>>

\* "for rel in extraction.relationships: ..."
RECURSIVE create_edges(_, _, _, _)
create_edges(trace, u, relationships, timestamp) ==
    IF relationships = <<>> THEN trace
    ELSE only({create_edges(longer, u, Tail(relationships), timestamp) :
               longer \in {trace \o create_relationship(trace[Len(trace)], u,
                                                        Head(relationships), timestamp)}})

\* process_entry, statement by statement: the state it starts in and the state
\* after each statement that changes it
process_entry_trace(ss, u, entry) ==
    LET timestamp == entry.time
        activity == parse_title(entry.title)
    IN IF activity.activity_type = "notification"
       THEN create_vertices(<<ss>>, u, extract_notification_topics(entry.subtitles),
                            timestamp)
       ELSE IF activity.content = "" THEN <<ss>>
       ELSE only({create_edges(vertices, u, extract(activity, entry.answer).relationships,
                               timestamp) :
                  vertices \in {create_vertices(<<ss>>, u,
                                                extract(activity, entry.answer).entities,
                                                timestamp)}})

\* process_entry: the state it leaves; its result is vertex_ids and entry["time"]
process_entry(ss, u, entry) ==
    only({trace[Len(trace)] : trace \in {process_entry_trace(ss, u, entry)}})

\* simplex_tree.insert_simplex inside a builder method, statement by statement:
\* the state after the pass of its loop for each vertex (the rows it inserts are
\* not committed yet)
insert_simplex_passes(st, u, vertex_ids, simplex_type, meta_data) ==
    [k \in 1..Len(vertex_ids) |->
        only({[st EXCEPT !.rows = r.rows, !.last_id = r.last_id] :
              r \in {insert_simplex_raises(st.rows, st.last_id, u, vertex_ids, simplex_type,
                                           meta_data, k + 1)}})]

\* _flush_temporal_window, statement by statement: the passes of insert_simplex,
\* then the state after its commit
flush_temporal_window_trace(st, u) ==
    IF window_to_flush(st)
    THEN insert_simplex_passes(st, u, list_of(st.temporal_vertices), "temporal",
                               temporal_meta(st.window_start, st.window_end))
         \o <<flush_temporal_window(st, u)>>
    ELSE <<>>

\* the temporal part of add_entry, statement by statement
temporal_trace(st, u, vertex_ids, timestamp) ==
    IF st.window_start = NULL \/ st.window_end = NULL
    THEN LET a == [st EXCEPT !.temporal_vertices = Range(vertex_ids)]
             b == [a EXCEPT !.window_start = timestamp]
             c == [b EXCEPT !.window_end = timestamp]
         IN <<a, b, c>>
    ELSE IF timestamp - st.window_end <= timedelta(WindowMinutes)
    THEN LET a == [st EXCEPT !.temporal_vertices = @ \cup Range(vertex_ids)]
             b == [a EXCEPT !.window_end = timestamp]
         IN <<a, b>>
    ELSE only({flush_temporal_window_trace(st, u)
               \o <<[f EXCEPT !.temporal_vertices = Range(vertex_ids)],
                    [f EXCEPT !.temporal_vertices = Range(vertex_ids),
                              !.window_start = timestamp],
                    [f EXCEPT !.temporal_vertices = Range(vertex_ids),
                              !.window_start = timestamp,
                              !.window_end = timestamp]>> :
               f \in {flush_temporal_window(st, u)}})

\* _update_location_simplex, statement by statement: the passes of insert_simplex,
\* the state after its commit, the state after
\* "self.location_simplex_ids[location] = node_id"
update_location_simplex_trace(st, u, location) ==
    IF Cardinality(st.location_vertices[location]) < 2 THEN <<>>
    ELSE only({insert_simplex_passes(st, u, list_of(st.location_vertices[location]),
                                     "location",
                                     location_meta(location,
                                                   st.location_timestamps[location]))
               \o <<[updated EXCEPT !.location_simplex_ids = st.location_simplex_ids],
                    updated>> :
               updated \in {update_location_simplex(st, u, location)}})

\* the location part of add_entry, statement by statement
location_trace(st, u, vertex_ids, timestamp, location) ==
    IF location # NoLocation /\ location # ""
    THEN only({only({<<a, b>> \o update_location_simplex_trace(b, u, location) :
                     b \in {[a EXCEPT !.location_timestamps[location] =
                                Append(@, timestamp)]}}) :
               a \in {[st EXCEPT !.location_vertices[location] =
                          @ \cup Range(vertex_ids)]}})
    ELSE <<>>

\* add_entry, statement by statement: the state it starts in and the state after
\* each statement
add_entry_trace(st, u, vertex_ids, timestamp, location) ==
    IF vertex_ids = <<>> THEN <<st>>
    ELSE only({temporal \o location_trace(temporal[Len(temporal)], u, vertex_ids,
                                          timestamp, location) :
               temporal \in {<<st>> \o temporal_trace(st, u, vertex_ids, timestamp)}})

\* the file between "open(CHECKPOINT_FILE, "w")", which empties it, and json.dump
empty_text == [length |-> 0]

truncated_file == [exists |-> TRUE, text |-> empty_text]

\* load_checkpoint on a file that holds no JSON document: json.load raises
\* json.JSONDecodeError
load_checkpoint_raises(file) == file.exists /\ file.text = empty_text

\* load_checkpoint: the file's content, or the empty checkpoint
load_checkpoint(file) ==
    IF file.exists THEN json_loads(file.text)
    ELSE [processed_indices |-> <<>>, entries_with_vertices |-> <<>>]

\* save_checkpoint: the file it writes
save_checkpoint(indices, entries) ==
    [exists |-> TRUE,
     text   |-> json_dumps([processed_indices |-> indices, entries_with_vertices |-> entries])]

\* everything run_pipeline works on, as one record; checkpoints_written is the
\* files save_checkpoint has written so far in the step under way
pipeline_state ==
    [store                 |-> store_state,
     builder               |-> builder_state,
     processed_indices     |-> processed_indices,
     entries_with_vertices |-> entries_with_vertices,
     checkpoint_file       |-> checkpoint_file,
     checkpoints_written   |-> <<>>]

\* "save_checkpoint(list(processed_indices), entries_with_vertices)": the file is
\* opened for writing and written, also when its content stays the same
checkpoint_saved(ps) ==
    only({[ps EXCEPT !.checkpoint_file = file, !.checkpoints_written = Append(@, file)] :
          file \in {save_checkpoint(list_of(ps.processed_indices),
                                    ps.entries_with_vertices)}})

\* save_checkpoint, statement by statement: the state after open, the state after
\* json.dump
save_checkpoint_trace(ps) ==
    <<[ps EXCEPT !.checkpoint_file = truncated_file], checkpoint_saved(ps)>>

\* "processed_indices.add(i)" and the checkpoint every CheckpointEvery indices
mark_processed(ps, i) ==
    only({IF Cardinality(marked.processed_indices) % CheckpointEvery = 0
          THEN <<marked>> \o save_checkpoint_trace(marked)
          ELSE <<marked>> :
          marked \in {[ps EXCEPT !.processed_indices = @ \cup {i}]}})

\* "entries_with_vertices.append((vertex_ids, timestamp))" and add_entry
append_and_add(ps, u, entry) ==
    only({[k \in 1..Len(bt) |-> [appended EXCEPT !.builder = bt[k]]] :
          appended \in {[ps EXCEPT !.entries_with_vertices =
                            Append(@, <<ps.store.vertex_ids, entry.time>>)]},
          bt \in {add_entry_trace(ps.builder, u, ps.store.vertex_ids,
                                  parse_timestamp(entry.time), extract_location(entry))}})

\* the loop body after process_entry has left the state ps
after_process_entry(ps, u, entry, i) ==
    IF ps.store.vertex_ids # <<>>
    THEN only({adding \o mark_processed(adding[Len(adding)], i) :
               adding \in {append_and_add(ps, u, entry)}})
    ELSE mark_processed(ps, i)

\* one pass of the loop body for index i, statement by statement: the state it
\* starts in and the state after each statement
iteration_trace(ps, u, entry, i) ==
    IF i \in ps.processed_indices THEN <<ps>>
    ELSE only({[k \in 1..Len(pt) |-> [ps EXCEPT !.store = pt[k]]]
               \o after_process_entry([ps EXCEPT !.store = pt[Len(pt)]], u, entry, i) :
               pt \in {process_entry_trace(ps.store, u, entry)}})

\* conn.close(): what the connection has not committed is discarded
close(ps) ==
    [ps EXCEPT !.store.table = ps.store.committed.table,
               !.store.last_id = ps.store.committed.last_id,
               !.store.edges = ps.store.committed.edges,
               !.store.last_edge_id = ps.store.committed.last_edge_id,
               !.builder.rows = ps.builder.committed.rows,
               !.builder.last_id = ps.builder.committed.last_id]

\* witness_builder.finalize() in run_pipeline: the commit of the insert_simplex it
\* calls makes durable whatever the connection holds, rows of the store included
finalized(ps, u) ==
    IF window_to_flush(ps.builder)
    THEN [ps EXCEPT !.builder = finalize(@, u),
                    !.store.committed = store_snapshot(ps.store)]
    ELSE [ps EXCEPT !.builder = finalize(@, u)]

\* "except KeyboardInterrupt": save_checkpoint, witness_builder.finalize(),
\* conn.close()
interrupted(ps, u) ==
    only({only({close(flushed) : flushed \in {finalized(saved, u)}}) :
          saved \in {checkpoint_saved(ps)}})

\* the statements after the loop, statement by statement: the state the loop
\* leaves, the states of the final save_checkpoint, the passes of the insert_simplex
\* that finalize calls, and the state after finalize, in which the summary is
\* printed
completion_trace(ps, u) ==
    only({only({<<ps>> \o save_checkpoint_trace(ps)
                \o [k \in 1..(Len(ft) - 1) |-> [saved EXCEPT !.builder = ft[k]]]
                \o <<finalized(saved, u)>> :
                ft \in {flush_temporal_window_trace(saved.builder, u)}}) :
          saved \in {checkpoint_saved(ps)}})

\* the statements after the loop, to the last: the final save_checkpoint, finalize,
\* the summary and conn.close()
completed(ps, u) ==
    only({close(trace[Len(trace)]) : trace \in {completion_trace(ps, u)}})

\* run_pipeline is left by an exception it does not catch: its connection is
\* dropped unclosed, and what it has not committed is discarded with it
abandoned(ps) == close(ps)

\* the program's variables take the values of the record ps; a store call that
\* wrote a row has committed on the connection it shares with the tree
PipelineBecomes(ps) ==
    /\ user_knowledge_vertex' = ps.store.table
    /\ last_vertex_id' = ps.store.last_id
    /\ vertex_cache' = ps.store.cache
    /\ user_knowledge_edge' = ps.store.edges
    /\ last_edge_id' = ps.store.last_edge_id
    /\ BuilderBecomes([ps.builder EXCEPT !.committed =
                          IF ps.store.table # user_knowledge_vertex
                             \/ ps.store.edges # user_knowledge_edge
                          THEN [rows |-> ps.builder.rows, last_id |-> ps.builder.last_id]
                          ELSE @])
    /\ processed_indices' = ps.processed_indices
    /\ entries_with_vertices' = ps.entries_with_vertices
    /\ checkpoint_file' = ps.checkpoint_file
    /\ UNCHANGED <<data, first_insert, returned, first_edge, entries_added, closed_windows,
                   location_given, window_log, failed_created, call_vars>>

InitPipeline ==
    /\ TreeInit /\ StoreInit /\ EdgeInit /\ BuilderInit /\ CallInit /\ RunInit
    /\ data \in Histories

\* the loop is at "for i, entry in enumerate(data)" with an entry left
InLoop == run_pc = "loop" /\ loop_index < Len(data)

\* the entry the loop is at (i counts from 0) and the pass of the loop body for it
current_entry == data[loop_index + 1]

current_trace == iteration_trace(pipeline_state, StoreUser, current_entry, loop_index)

\* the strings process_entry hands to get_or_create_vertex for an entry
entities_of(entry) ==
    LET activity == parse_title(entry.title)
    IN IF activity.activity_type = "notification"
       THEN extract_notification_topics(entry.subtitles)
       ELSE extract(activity, entry.answer).entities

\* run_pipeline(..., resume) up to the loop: the components are built on the
\* database and the checkpoint is loaded
StartRun(resume) ==
    /\ run_pc = "idle"
    /\ run_log.runs < MaxRuns
    /\ ~(resume /\ load_checkpoint_raises(checkpoint_file))
    /\ \E checkpoint \in {IF resume THEN load_checkpoint(checkpoint_file)
                          ELSE [processed_indices |-> <<>>, entries_with_vertices |-> <<>>]} :
          /\ processed_indices' = Range(checkpoint.processed_indices)
          /\ entries_with_vertices' = checkpoint.entries_with_vertices
          /\ run_log' = [run_log EXCEPT !.runs = @ + 1,
                                        !.exit = "running",
                                        !.resume = resume,
                                        !.loaded = Range(checkpoint.processed_indices),
                                        !.handled = {},
                                        !.written = {},
                                        !.failed = {},
                                        !.retried = {},
                                        !.previous = run_log.exit]
    /\ vertex_cache' \in load_vertex_cache(user_knowledge_vertex, StoreUser)
    /\ \E b \in {new_builder(simplex_vertex, last_node_id, builder_state.committed)} :
          BuilderBecomes(b)
    /\ run_pc' = "loop"
    /\ loop_index' = 0
    /\ UNCHANGED <<data, checkpoint_file, user_knowledge_vertex, last_vertex_id, edge_vars,
                   returned, first_insert, entries_added, closed_windows, location_given,
                   window_log,
                   failed_created, call_vars>>

\* run_pipeline(..., resume=True) on a checkpoint file that json.load cannot
\* read: the components are built, load_checkpoint raises, and run_pipeline is
\* left before its loop
LoadCheckpointRaises ==
    /\ run_pc = "idle"
    /\ run_log.runs < MaxRuns
    /\ load_checkpoint_raises(checkpoint_file)
    /\ run_log' = [run_log EXCEPT !.runs = @ + 1,
                                  !.exit = "load_raised",
                                  !.resume = TRUE,
                                  !.loaded = {},
                                  !.handled = {},
                                  !.written = {},
                                  !.failed = {},
                                  !.retried = {},
                                  !.previous = run_log.exit]
    /\ vertex_cache' \in load_vertex_cache(user_knowledge_vertex, StoreUser)
    /\ \E b \in {new_builder(simplex_vertex, last_node_id, builder_state.committed)} :
          BuilderBecomes(b)
    /\ loop_index' = 0
    /\ UNCHANGED <<run_pc, processed_indices, entries_with_vertices, data,
                   checkpoint_file, user_knowledge_vertex, last_vertex_id, edge_vars,
                   returned, first_insert, entries_added, closed_windows, location_given,
                   window_log, failed_created, call_vars>>

\* one pass of the loop body, to its end
ProcessNext ==
    /\ InLoop
    /\ \E trace \in {current_trace} : \E ps \in {trace[Len(trace)]} :
          /\ PipelineBecomes(ps)
          /\ run_log' =
                IF Len(trace) = 1 THEN run_log
                ELSE [run_log EXCEPT !.handled = @ \cup {loop_index},
                                     !.unretried = @ \ {loop_index},
                                     !.retried = @ \cup (run_log.unretried \cap {loop_index}),
                                     !.written = @ \cup Range(ps.checkpoints_written)]
    /\ loop_index' = loop_index + 1
    /\ UNCHANGED run_pc

\* KeyboardInterrupt arrives in the loop body after p - 1 of its statements: the
\* handler saves the checkpoint, calls finalize and returns
Interrupt ==
    /\ InLoop
    /\ \E trace \in {current_trace} : \E p \in DOMAIN trace :
          \E ps \in {interrupted(trace[p], StoreUser)} :
             /\ PipelineBecomes(ps)
             /\ run_log' = [run_log EXCEPT !.exit = "interrupted",
                                           !.written = @ \cup Range(ps.checkpoints_written)]
    /\ run_pc' = "idle"
    /\ UNCHANGED loop_index

\* extractor.extract (k = 0) or extractor.embed for the k-th entity raises: the
\* exception is not caught and ends run_pipeline
Raise(k) ==
    /\ InLoop
    /\ loop_index \notin processed_indices
    /\ k \in 0..Len(entities_of(current_entry))
    /\ \E pt \in {create_vertices(<<store_state>>, StoreUser,
                                   SubSeq(entities_of(current_entry), 1, k - 1),
                                   current_entry.time)} :
          /\ IF k = 0
             THEN LET activity == parse_title(current_entry.title)
                  IN activity.activity_type # "notification" /\ activity.content # ""
             ELSE canonical_key(entities_of(current_entry)[k]) \notin DOMAIN pt[Len(pt)].cache
          /\ \E ps \in {[pipeline_state EXCEPT !.store = pt[Len(pt)]]} :
                PipelineBecomes(ps)
    /\ run_log' = [run_log EXCEPT !.exit = "raised",
                                  !.failed = {loop_index},
                                  !.handled = @ \cup {loop_index},
                                  !.unretried = @ \cup {loop_index}]
    /\ run_pc' = "idle"
    /\ UNCHANGED loop_index

\* KeyboardInterrupt arrives after the loop, after p - 1 of the statements that
\* follow it: they are outside the try, so the exception leaves run_pipeline
\* with the remaining statements not run
InterruptAfterLoop ==
    /\ run_pc = "loop"
    /\ loop_index = Len(data)
    /\ \E trace \in {completion_trace(pipeline_state, StoreUser)} : \E p \in DOMAIN trace :
          \E ps \in {abandoned(trace[p])} :
             /\ PipelineBecomes(ps)
             /\ run_log' = [run_log EXCEPT !.exit = "interrupted_after_loop",
                                           !.written = @ \cup Range(ps.checkpoints_written)]
    /\ run_pc' = "idle"
    /\ UNCHANGED loop_index

\* the loop is over and nothing interrupts what follows it: the final checkpoint,
\* finalize, the summary, conn.close()
Finish ==
    /\ run_pc = "loop"
    /\ loop_index = Len(data)
    /\ \E ps \in {completed(pipeline_state, StoreUser)} :
          /\ PipelineBecomes(ps)
          /\ run_log' = [run_log EXCEPT !.exit = "completed",
                                        !.written = @ \cup Range(ps.checkpoints_written)]
    /\ run_pc' = "idle"
    /\ UNCHANGED loop_index

NextPipeline ==
    \/ \E resume \in BOOLEAN : StartRun(resume)
    \/ LoadCheckpointRaises
    \/ ProcessNext
    \/ Interrupt
    \/ \E k \in 0..MaxLen : Raise(k)
    \/ InterruptAfterLoop
    \/ Finish

SpecPipeline == InitPipeline /\ [][NextPipeline]_vars

\* the indices a checkpoint file lists; a file that cannot be read lists none
IndicesIn(file) ==
    IF load_checkpoint_raises(file) THEN {}
    ELSE Range(load_checkpoint(file).processed_indices)

\* the pending window, as a list, is a node of the tree
PendingWindowInTree ==
    search_simplex(simplex_vertex, StoreUser, list_of(temporal_vertices)) # NULL

\* C22 (as claimed): when KeyboardInterrupt arrives at any point of the loop, then
\* at the return of run_pipeline the checkpoint file holds every index marked
\* processed and entries_with_vertices, and finalize was called: the pending
\* window, if it has two or more vertices, is in the tree.
C22_CancellationCheckpoint ==
    run_log.exit = "interrupted" =>
       /\ checkpoint_file = save_checkpoint(list_of(processed_indices), entries_with_vertices)
       /\ PendingWindow => PendingWindowInTree

\* C23 (as claimed): when an error (a failed extractor or embedding call) ends
\* the ingestion, the checkpoint file written before the exit lists every index
\* processed so far.
C23_ErrorCheckpointFlush ==
    run_log.exit = "raised" => processed_indices \subseteq IndicesIn(checkpoint_file)

\* C24 (as claimed): an index is in processed_indices only when process_entry and
\* add_entry for it have returned; when the extractor call for entry i fails, i is
\* in no checkpoint written by that run; a later run with resume enabled skips
\* exactly the indices of the checkpoint it loaded and processes every other
\* index, i among them.
C24_RetryOnResume ==
    /\ InLoop =>
          \A trace \in {current_trace} : \A p \in DOMAIN trace :
             loop_index \in trace[p].processed_indices \ processed_indices =>
                /\ trace[p].store = trace[Len(trace)].store
                /\ trace[p].builder = trace[Len(trace)].builder
    /\ run_log.exit = "raised" =>
          /\ run_log.failed # {}
          /\ run_log.failed \cap processed_indices = {}
          /\ \A file \in run_log.written : run_log.failed \cap IndicesIn(file) = {}
    /\ run_log.resume =>
          \A j \in 0..(loop_index - 1) :
             /\ j \in run_log.loaded <=> j \notin run_log.handled
             /\ j \in run_log.unretried => j \in run_log.handled

\* What holds of retries in every run: an index is in processed_indices only
\* when process_entry and add_entry for it have returned; when the extractor call
\* for entry i fails, i is
\* in no checkpoint written by that run, and when that run had resume enabled the
\* checkpoint file it leaves does not list i; a run with resume enabled skips
\* exactly the indices of the checkpoint it loaded and processes every other
\* index. (A file left by an earlier run, which a run without resume neither
\* loads nor rewrites before it fails, may still list i.)
RetryUnlistedOnResume ==
    /\ InLoop =>
          \A trace \in {current_trace} : \A p \in DOMAIN trace :
             loop_index \in trace[p].processed_indices \ processed_indices =>
                /\ trace[p].store = trace[Len(trace)].store
                /\ trace[p].builder = trace[Len(trace)].builder
    /\ run_log.exit = "raised" =>
          /\ run_log.failed # {}
          /\ run_log.failed \cap processed_indices = {}
          /\ \A file \in run_log.written : run_log.failed \cap IndicesIn(file) = {}
          /\ run_log.resume => run_log.failed \cap IndicesIn(checkpoint_file) = {}
    /\ run_log.resume =>
          \A j \in 0..(loop_index - 1) :
             /\ j \in run_log.loaded <=> j \notin run_log.handled
             /\ (j \in run_log.unretried /\ j \notin run_log.loaded) => j \in run_log.handled

\* A retry that happens: a run with resume enabled has loaded a checkpoint listing index
\* 0, skipped it, and processed index 1, whose extractor call had failed in an
\* earlier run.
RetryOnResumeWitness ==
    /\ run_log.resume
    /\ run_log.loaded = {0}
    /\ run_log.handled = {1}
    /\ run_log.retried = {1}
    /\ processed_indices = {0, 1}

----------------------------------------------------------------------------
(* The state of the temporal window *)

\* C31: when add_entry and finalize are called with timestamps that never
\* decrease, window_start and window_end are both unset or both set; when set,
\* temporal_vertices is not empty, window_start <= window_end, and
\* temporal_vertices is exactly the union of the vertex ids of the entries given
\* since the window was started; and add_entry with an empty list of vertex ids
\* changes neither the window, nor the state of the locations, nor the tree.
C31_WindowState ==
    /\ window_start = NULL <=> window_end = NULL
    /\ window_start # NULL =>
          /\ temporal_vertices # {}
          /\ window_start <= window_end
          /\ temporal_vertices = window_log.given
          /\ window_end = window_log.last
    /\ window_start = NULL => window_log.last = NULL
    /\ \A ts \in EntryTimes, location \in Locations \cup {NoLocation} :
          add_entry(builder_state, StoreUser, <<>>, ts, location) = builder_state

\* C31 witness: the entry [3, 2] started a window at minute 1, the entry [1]
\* extended it at minute 2, and an add_entry with no vertex ids came at minute 3:
\* the window runs from 1 to 2 and holds {1, 2, 3}.
C31_Witness ==
    /\ window_start = 1
    /\ window_end = 2
    /\ temporal_vertices = {1, 2, 3}
    /\ window_log = [given |-> {1, 2, 3}, last |-> 2, time |-> 3]

----------------------------------------------------------------------------
(* What a failed entry leaves behind *)

\* C32 (as claimed): when processing an entry raises partway (extractor.extract
\* fails, or extractor.embed fails for the k-th entity after the entities before
\* it were stored), the vertex rows with their metadata and the edge rows are as
\* they were before the entry began.
C32_FailedEntryLeavesNoTrace ==
    [][(InLoop /\ run_log'.exit = "raised") =>
          /\ user_knowledge_vertex' = user_knowledge_vertex
          /\ user_knowledge_edge' = user_knowledge_edge]_vars

----------------------------------------------------------------------------
(* A cancelled run and its resumption against one run *)

\* run_pipeline before its loop, on an empty database and with no checkpoint file
fresh_pipeline ==
    [store                 |-> [table            |-> {},
                                last_id          |-> 0,
                                cache            |-> only(load_vertex_cache({}, StoreUser)),
                                edges            |-> {},
                                last_edge_id     |-> 0,
                                committed        |-> [table        |-> {},
                                                      last_id      |-> 0,
                                                      edges        |-> {},
                                                      last_edge_id |-> 0],
                                vertex_ids       |-> <<>>,
                                entity_to_vertex |-> <<>>],
     builder               |-> new_builder({}, 0, [rows |-> {}, last_id |-> 0]),
     processed_indices     |-> {},
     entries_with_vertices |-> <<>>,
     checkpoint_file       |-> [exists |-> FALSE],
     checkpoints_written   |-> <<>>]

\* "for i, entry in enumerate(data)" from index i on, every pass to its end;
\* vertex_ids and entity_to_vertex are locals of process_entry, new in each pass
RECURSIVE run_loop(_, _, _, _)
run_loop(ps, u, entries, i) ==
    IF i >= Len(entries) THEN ps
    ELSE only({run_loop(after, u, entries, i + 1) :
               after \in {only({[trace[Len(trace)] EXCEPT !.store.vertex_ids = <<>>,
                                                         !.store.entity_to_vertex = <<>>] :
                                trace \in {iteration_trace(ps, u, entries[i + 1], i)}})}})

\* run_pipeline from its first statement to its last, nothing interrupting it
uninterrupted_run(entries, u) ==
    only({completed(ps, u) : ps \in {run_loop(fresh_pipeline, u, entries, 0)}})

\* the simplices of user u in the table rows: vertex list, type and meta_data
simplices(rows, u) ==
    {[vertex_ids |-> collect_path(rows, n.node_id), type |-> n.type,
      meta_data |-> n.meta_data] : n \in {x \in rows : x.user_id = u}}

\* the run that just ended was a resumed one, it ran to its end, and it was the
\* second on this database, after a cancelled one
ResumedAfterCancel ==
    /\ run_log.runs = 2
    /\ run_log.previous = "interrupted"
    /\ run_log.resume
    /\ run_log.exit = "completed"

\* C33 (as claimed): a cancelled run followed by a resumed run over the same input
\* and database leaves the same simplices in the tree (vertex lists, types and
\* metadata, temporal and location) as one uninterrupted run.
C33_ResumeEquivalence ==
    ResumedAfterCancel =>
       simplices(simplex_vertex, StoreUser)
          = simplices(uninterrupted_run(data, StoreUser).builder.rows, StoreUser)

====
